---- MODULE Spec2Model ----
(***************************************************************************)
(* Bifrost: the top-level view router (internal/tui/tui.go), its forms and  *)
(* confirmation modal (internal/tui/views), the persisted connection store  *)
(* (internal/config), the OS keyring wrapper (internal/keyring), the main   *)
(* loop (cmd/bifrost/main.go) and the remote file browser                   *)
(* (internal/tui/views/sftp_browser.go).                                    *)
(*                                                                         *)
(* Text values (the content of a text input, a label, a path) are          *)
(* sequences of one-character strings.  Key events are the strings         *)
(* tea.KeyMsg.String() returns.                                            *)
(***************************************************************************)
EXTENDS Integers, Sequences, FiniteSets, TLC

\* ------------------------------------------------------------------ bounds
\* Connections present in the persisted store when the process starts.
MaxSeed == 2
\* Credentials present in the persisted store when the process starts.
MaxSeedCred == 1
\* Identities uuid.New() hands out in one run.
MaxIds == 1
\* Edits the user makes in one run: a character typed into a text input, a
\* change of the selected icon, or a change of the remote file system.
MaxEdits == 1
\* Operations on a store or on the remote server that fail in one run.
MaxFaults == 1
\* Files in the remote directory /d when the browser starts.
MaxFiles == 1
\* The terminal height a WindowSizeMsg reports.
WindowHeight == 16

\* --------------------------------------------------------- program constants
LabelCharLimit == 50
HostCharLimit == 100
PortCharLimit == 5
UsernameCharLimit == 50
PasswordCharLimit == 100
DefaultPort == 22
MaxPort == 65535
\* FormField (connection_form.go:27-36)
FieldLabel == 0
FieldHost == 1
FieldPort == 2
FieldUsername == 3
FieldPassword == 4
FieldIcon == 5
FieldSubmit == 6
FieldCancel == 7
\* CredentialField (connection_form.go:546-552)
CredFieldLabel == 0
CredFieldUsername == 1
CredFieldPassword == 2
CredFieldSubmit == 3
CredFieldCancel == 4
\* the form's icons slice has four entries, the last ("server") the default
IconCount == 4
ReservedLines == 12
MessageLines == 2
PathCharLimit == 256
NameCharLimit == 256
DefaultIconIndex == 3

\* ------------------------------------------------------------------ helpers
Nil == [nil |-> TRUE]
NoErr == "nil"

Min(a, b) == IF a < b THEN a ELSE b
Max(a, b) == IF a > b THEN a ELSE b

Take(s, n) == SubSeq(s, 1, Min(n, Len(s)))

DigitChars == <<"0", "1", "2", "3", "4", "5", "6", "7", "8", "9">>
IsDigit(c) == \E i \in 1..10 : DigitChars[i] = c
DigitVal(c) == (CHOOSE i \in 1..10 : DigitChars[i] = c) - 1

RECURSIVE DigitsValue(_)
DigitsValue(s) ==
    IF s = <<>> THEN 0
    ELSE 10 * DigitsValue(SubSeq(s, 1, Len(s) - 1)) + DigitVal(s[Len(s)])

\* strconv.Atoi: an optional sign followed by at least one decimal digit.
AtoiBody(s) == IF s # <<>> /\ s[1] \in {"+", "-"} THEN Tail(s) ELSE s
AtoiOk(s) ==
    /\ AtoiBody(s) # <<>>
    /\ \A i \in 1..Len(AtoiBody(s)) : IsDigit(AtoiBody(s)[i])
Atoi(s) ==
    IF ~AtoiOk(s) THEN 0
    ELSE IF s[1] = "-" THEN 0 - DigitsValue(AtoiBody(s))
    ELSE DigitsValue(AtoiBody(s))

\* strconv.Itoa
RECURSIVE NatDigits(_)
NatDigits(n) ==
    IF n < 10 THEN <<DigitChars[n + 1]>>
    ELSE Append(NatDigits(n \div 10), DigitChars[(n % 10) + 1])
Itoa(n) == IF n < 0 THEN <<"-">> \o NatDigits(0 - n) ELSE NatDigits(n)

\* ------------------------------------------------------------- key events
\* The keys the user presses.
Keys == {"q", "ctrl+c", "esc", "enter", "tab", "shift+tab", "up", "down",
         "left", "right", "h", "l", "a", "e", "d", "c", "?"}
\* Printable keys: a focused text input inserts them.
Runes == {"q", "a", "e", "d", "c", "?", "7", "0", "h", "j", "k", "l", "y", "n",
          "G", "g", "~", ".", "N", "r", "Y", "D"}
\* The characters the model lets the user type into a text input.
TypedRunes == {"q"}

VARIABLES
    pc,        \* where cmd/bifrost main is: "tui", "quit", "session", "shell", "ended",
               \* "browser", "editing", "closed", "exit", "crashed"
    m,         \* tui.Model, the router
    config,    \* the *config.Config the router holds
    disk,      \* the persisted store (config.yaml)
    keyring,   \* the OS keyring: a set of [type, id, password]
    uuids,     \* how many identities uuid.New() has handed out
    edits,     \* how many edits the user has made to form fields
    faults,    \* how many store operations have failed
    quitCmd,   \* which handler returned tea.Quit: "none", "global", "menu"
    session,   \* the session main starts: Nil or [conn, type]
    ops,       \* store operations of the last event, in order
    b,         \* views.SFTPBrowserModel, the remote file browser
    remote,    \* the remote file system: entries [path, isDir], in directory order
    cwd,       \* sftp.Client.currentDir
    modal,     \* a views.ConfirmationModalModel on its own
    pressed,   \* the keys delivered to that modal, in order
    downloads, \* the local file system: the paths that exist under ~/Downloads
    localPath, \* the destination of the last download, <<>> when there was none
    shell,     \* the interactive ssh session that is running, 0 when none is
    listeners, \* the sessions whose handleResize goroutine is running
    resized    \* the sessions the last SIGWINCH was forwarded to

routerVars == <<pc, m, config, disk, keyring, uuids, edits, faults, quitCmd, session, ops>>
browserVars == <<b, remote, cwd>>
modalVars == <<modal, pressed>>
localVars == <<downloads, localPath>>
termVars == <<shell, listeners, resized>>
vars == <<routerVars, browserVars, modalVars, localVars, termVars>>

\* ------------------------------------------------------------ data model
SeedConnection(i) ==
    [id |-> i,
     label |-> <<"s", DigitChars[i + 1]>>,
     host |-> <<"h">>,
     port |-> IF i = 2 THEN 70000 ELSE DefaultPort,
     username |-> <<"u">>,
     icon |-> DefaultIconIndex,
     authType |-> "password",
     credentialID |-> 0]
SeedConnections(n) == [i \in 1..n |-> SeedConnection(i)]
SeedCredential(i) ==
    [id |-> MaxSeed + i, label |-> <<"c", DigitChars[i + 1]>>, username |-> <<"u">>]
SeedCredentials(n) == [i \in 1..n |-> SeedCredential(i)]
FreshId(n) == MaxSeed + MaxSeedCred + 1 + n
\* The keyring when the process starts: the first seed's password is stored,
\* the others' are not.
SeedKeyring == {[type |-> "conn", id |-> 1, password |-> <<"p">>]}
\* The outcomes of a store operation: it may fail when it is reached at all.
Outcomes(reached) == IF reached THEN BOOLEAN ELSE {TRUE}
Failed(ok) == IF ok THEN 0 ELSE 1

Op(name, ok) == [op |-> name, ok |-> ok]

\* ------------------------------------------------- bubbles textinput.Model
\* Update of a focused input: a printable key is appended while the value is
\* shorter than CharLimit; every other key leaves the value alone.
TextInputUpdate(value, k, charLimit) ==
    IF k \in Runes /\ Len(value) < charLimit THEN Append(value, k) ELSE value
\* SetValue truncates to CharLimit.
TextInputSetValue(value, charLimit) == Take(value, charLimit)

\* ------------------------------------------------------ confirmation modal
\* A modal that opens with Yes selected.
NewConfirmationModalYes(message) ==
    [message |-> message, selected |-> 0, confirmed |-> FALSE, cancelled |-> FALSE]

NewConfirmationModal(message) ==
    [message |-> message, selected |-> 1, confirmed |-> FALSE, cancelled |-> FALSE]

\* A modal whose Enter confirms whatever is selected.
ConfirmationModalUpdateEnterConfirms(md, k) ==
    CASE k = "esc" -> [md EXCEPT !.cancelled = TRUE]
      [] k \in {"left", "h"} ->
            IF md.selected > 0 THEN [md EXCEPT !.selected = md.selected - 1] ELSE md
      [] k \in {"right", "l"} ->
            IF md.selected < 1 THEN [md EXCEPT !.selected = md.selected + 1] ELSE md
      [] k = "enter" -> [md EXCEPT !.confirmed = TRUE]
      [] OTHER -> md

ConfirmationModalUpdate(md, k) ==
    CASE k = "esc" -> [md EXCEPT !.cancelled = TRUE]
      [] k \in {"left", "h"} ->
            IF md.selected > 0 THEN [md EXCEPT !.selected = md.selected - 1] ELSE md
      [] k \in {"right", "l"} ->
            IF md.selected < 1 THEN [md EXCEPT !.selected = md.selected + 1] ELSE md
      [] k = "enter" ->
            IF md.selected = 0 THEN [md EXCEPT !.confirmed = TRUE]
            ELSE [md EXCEPT !.cancelled = TRUE]
      [] OTHER -> md

\* ---------------------------------------------------------- connection form
ConnCharLimits ==
    <<LabelCharLimit, HostCharLimit, PortCharLimit, UsernameCharLimit, PasswordCharLimit>>

KeyringHas(kr, type, id) == \E e \in kr : e.type = type /\ e.id = id
KeyringGet(kr, type, id) == (CHOOSE e \in kr : e.type = type /\ e.id = id).password
KeyringSet(kr, type, id, password) ==
    {e \in kr : ~(e.type = type /\ e.id = id)}
        \cup {[type |-> type, id |-> id, password |-> password]}
KeyringDelete(kr, type, id) == {e \in kr : ~(e.type = type /\ e.id = id)}

\* NewConnectionForm(mode, conn): conn is Nil in add mode.  getOk says whether
\* keyring.GetConnectionPassword succeeds.
NewConnectionForm(mode, conn, kr, getOk) ==
    LET edit == mode = "edit" /\ conn # Nil
        stored == edit /\ conn.authType = "password" /\ getOk
                       /\ KeyringHas(kr, "conn", conn.id)
    IN [mode |-> mode,
        connID |-> IF edit THEN conn.id ELSE 0,
        inputs |-> IF edit
                   THEN <<TextInputSetValue(conn.label, LabelCharLimit),
                          TextInputSetValue(conn.host, HostCharLimit),
                          TextInputSetValue(Itoa(conn.port), PortCharLimit),
                          TextInputSetValue(conn.username, UsernameCharLimit),
                          IF stored
                          THEN TextInputSetValue(KeyringGet(kr, "conn", conn.id),
                                                 PasswordCharLimit)
                          ELSE <<>> >>
                   ELSE << <<>>, <<>>, <<>>, <<>>, <<>> >>,
        iconIndex |-> IF edit /\ conn.icon \in 0..(IconCount - 1)
                      THEN conn.icon ELSE DefaultIconIndex,
        focusIndex |-> 0,
        submitted |-> FALSE,
        cancelled |-> FALSE,
        err |-> NoErr]

\* A nextField that does not wrap after Cancel.
nextFieldNoWrap(f) ==
    [f EXCEPT !.focusIndex = f.focusIndex + 1]

nextField(f) ==
    [f EXCEPT !.focusIndex = IF f.focusIndex + 1 > FieldCancel THEN 0
                             ELSE f.focusIndex + 1]
prevField(f) ==
    [f EXCEPT !.focusIndex = IF f.focusIndex - 1 < 0 THEN FieldCancel
                             ELSE f.focusIndex - 1]
nextIcon(f) ==
    [f EXCEPT !.iconIndex = IF f.iconIndex + 1 >= IconCount THEN 0
                            ELSE f.iconIndex + 1]
prevIcon(f) ==
    [f EXCEPT !.iconIndex = IF f.iconIndex - 1 < 0 THEN IconCount - 1
                            ELSE f.iconIndex - 1]

PortInRange(port) == port >= 1 /\ port <= MaxPort

\* A submit that accepts any port that parses.
submitAnyPort(f) ==
    IF f.inputs[FieldLabel + 1] = <<>> THEN [f EXCEPT !.err = "label is required"]
    ELSE IF f.inputs[FieldHost + 1] = <<>> THEN [f EXCEPT !.err = "host is required"]
    ELSE IF f.inputs[FieldPort + 1] # <<>> /\ ~AtoiOk(f.inputs[FieldPort + 1])
         THEN [f EXCEPT !.err = "invalid port number"]
    ELSE [f EXCEPT !.submitted = TRUE]

submit(f) ==
    IF f.inputs[FieldLabel + 1] = <<>> THEN [f EXCEPT !.err = "label is required"]
    ELSE IF f.inputs[FieldHost + 1] = <<>> THEN [f EXCEPT !.err = "host is required"]
    ELSE IF /\ f.inputs[FieldPort + 1] # <<>>
            /\ \/ ~AtoiOk(f.inputs[FieldPort + 1])
               \/ ~PortInRange(Atoi(f.inputs[FieldPort + 1]))
         THEN [f EXCEPT !.err = "invalid port number"]
    ELSE [f EXCEPT !.submitted = TRUE]

\* The tail of Update: the key goes to the focused text input, if any.
FormUpdateInput(f, k) ==
    IF f.focusIndex < Len(f.inputs)
    THEN [f EXCEPT !.inputs[f.focusIndex + 1] =
              TextInputUpdate(f.inputs[f.focusIndex + 1], k,
                              ConnCharLimits[f.focusIndex + 1])]
    ELSE f

ConnectionFormUpdate(f, k) ==
    CASE k \in {"ctrl+c", "esc"} -> [f EXCEPT !.cancelled = TRUE]
      [] k \in {"tab", "down"} -> nextField(f)
      [] k \in {"shift+tab", "up"} -> prevField(f)
      [] k = "left" /\ f.focusIndex = FieldIcon -> prevIcon(f)
      [] k = "right" /\ f.focusIndex = FieldIcon -> nextIcon(f)
      [] k = "enter" ->
            IF f.focusIndex = FieldSubmit THEN submit(f)
            ELSE IF f.focusIndex = FieldCancel THEN [f EXCEPT !.cancelled = TRUE]
            ELSE nextField(f)
      [] OTHER -> FormUpdateInput(f, k)

\* A GetConnection that stores the default port whatever the port field holds.
GetConnectionDefaultPort(f, id) ==
    [id |-> IF f.connID = 0 THEN id ELSE f.connID,
     label |-> f.inputs[FieldLabel + 1],
     host |-> f.inputs[FieldHost + 1],
     port |-> DefaultPort,
     username |-> f.inputs[FieldUsername + 1],
     icon |-> f.iconIndex,
     authType |-> "password",
     credentialID |-> 0]

\* GetConnection; id is the identity uuid.New() returns when connID is empty.
GetConnection(f, id) ==
    [id |-> IF f.connID = 0 THEN id ELSE f.connID,
     label |-> f.inputs[FieldLabel + 1],
     host |-> f.inputs[FieldHost + 1],
     port |-> IF f.inputs[FieldPort + 1] # <<>> THEN Atoi(f.inputs[FieldPort + 1])
              ELSE DefaultPort,
     username |-> f.inputs[FieldUsername + 1],
     icon |-> f.iconIndex,
     authType |-> "password",
     credentialID |-> 0]
GetPassword(f) == f.inputs[FieldPassword + 1]

\* Does this key put a character into a text input of the form?
FormInserts(f, k) == FormUpdateInput(f, k) # f /\ ConnectionFormUpdate(f, k) = FormUpdateInput(f, k)

\* ------------------------------------------------------------ config store
RECURSIVE FindIndexFrom(_, _, _)
FindIndexFrom(seq, id, i) ==
    IF i > Len(seq) THEN 0
    ELSE IF seq[i].id = id THEN i
    ELSE FindIndexFrom(seq, id, i + 1)
\* Position of the first record with this id, 0 when there is none.
FindIndex(seq, id) == FindIndexFrom(seq, id, 1)
RemoveAt(seq, i) == SubSeq(seq, 1, i - 1) \o SubSeq(seq, i + 1, Len(seq))

\* Config.AddConnection, before its Save.
AddConnection(cfg, conn) ==
    [cfg EXCEPT !.connections = Append(cfg.connections, conn)]
\* Config.DeleteConnection, before its Save: the record is taken out of the
\* in-memory list first.
DeleteConnection(cfg, id) ==
    [cfg EXCEPT !.connections = RemoveAt(cfg.connections, FindIndex(cfg.connections, id))]
\* An UpdateConnection that moves the updated record to the end of the list.
UpdateConnectionMovesLast(cfg, conn) ==
    [cfg EXCEPT !.connections =
        Append(RemoveAt(cfg.connections, FindIndex(cfg.connections, conn.id)), conn)]
\* Config.UpdateConnection, before its Save.
UpdateConnection(cfg, conn) ==
    [cfg EXCEPT !.connections[FindIndex(cfg.connections, conn.id)] = conn]
\* Config.Save: writes the whole configuration, or fails and writes nothing.
Save(cfg, dsk, ok) == IF ok THEN cfg ELSE dsk

\* ------------------------------------------------------------------ router
NewModel ==
    [state |-> "ViewConnections",
     selectedIndex |-> 0,
     err |-> NoErr,
     form |-> Nil,
     credentialsManager |-> Nil,
     selectedConnection |-> Nil,
     menuSelection |-> 0,
     confirmationModal |-> Nil,
     showingConfirmation |-> FALSE,
     confirmationCallback |-> Nil]

\* The closure handleDeleteConnection stores captures its receiver m, the
\* Model as it is when 'd' is handled, confirmationCallback included.
Self == [self |-> TRUE]
Capture(mm) == [captured |-> [mm EXCEPT !.confirmationCallback = Self]]
Uncapture(cap) == [cap EXCEPT !.confirmationCallback = [captured |-> cap]]

\* A router whose global quit keys work in every view.
DispatchQuitEverywhere(mm, k) ==
    IF mm.showingConfirmation /\ mm.confirmationModal # Nil THEN "modal"
    ELSE IF k \in {"ctrl+c", "q"} THEN "quit"
    ELSE IF k = "?" THEN "help"
    ELSE mm.state

\* Which branch of Model.Update a key takes.
Dispatch(mm, k) ==
    IF mm.showingConfirmation /\ mm.confirmationModal # Nil THEN "modal"
    ELSE IF k \in {"ctrl+c", "q"}
            /\ mm.state # "ViewConnectionForm" /\ mm.state # "ViewCredentials"
         THEN "quit"
    ELSE IF k = "?" THEN "help"
    ELSE mm.state

\* Model.Update, "ctrl+c"/"q" outside the form and the credentials manager.
GlobalQuit(k) ==
    /\ pc = "tui"
    /\ Dispatch(m, k) = "quit"
    /\ pc' = "quit"
    /\ quitCmd' = "global"
    /\ ops' = <<>>
    /\ UNCHANGED <<m, config, disk, keyring, uuids, edits, faults, session>>
    /\ UNCHANGED <<browserVars, modalVars, localVars, termVars>>

\* Model.Update, "?".
Help(k) ==
    /\ pc = "tui"
    /\ Dispatch(m, k) = "help"
    /\ ops' = <<>>
    /\ UNCHANGED <<pc, m, config, disk, keyring, uuids, edits, faults, quitCmd, session>>
    /\ UNCHANGED <<browserVars, modalVars, localVars, termVars>>

handleConnectionSelect(mm) ==
    IF mm.selectedIndex >= Len(config.connections) THEN mm
    ELSE [mm EXCEPT !.selectedConnection = config.connections[mm.selectedIndex + 1],
                    !.state = "ViewSelectionMenu",
                    !.menuSelection = 0]

showAddConnectionForm(mm) ==
    [mm EXCEPT !.form = NewConnectionForm("add", Nil, keyring, TRUE),
               !.state = "ViewConnectionForm",
               !.err = NoErr]

showEditConnectionForm(mm, getOk) ==
    IF mm.selectedIndex >= Len(config.connections) THEN mm
    ELSE [mm EXCEPT !.form = NewConnectionForm("edit",
                                 config.connections[mm.selectedIndex + 1],
                                 keyring, getOk),
                    !.state = "ViewConnectionForm",
                    !.err = NoErr]

handleDeleteConnection(mm) ==
    IF mm.selectedIndex >= Len(config.connections) THEN mm
    ELSE LET shown == [mm EXCEPT
                 !.confirmationModal =
                     NewConfirmationModal(config.connections[mm.selectedIndex + 1].label),
                 !.showingConfirmation = TRUE]
         IN [shown EXCEPT !.confirmationCallback = Capture(shown)]

NewCredentialsManager ==
    [selectedIndex |-> 0,
     err |-> NoErr,
     form |-> Nil,
     confirmationModal |-> Nil,
     showingConfirmation |-> FALSE,
     showingForm |-> FALSE,
     formMode |-> "add",
     done |-> FALSE]

showCredentialsManager(mm) ==
    [mm EXCEPT !.credentialsManager = NewCredentialsManager,
               !.state = "ViewCredentials"]

\* Model.updateConnectionsList
updateConnectionsList(mm, k, getOk) ==
    CASE k \in {"j", "down"} ->
            IF mm.selectedIndex < Len(config.connections) - 1
            THEN [mm EXCEPT !.selectedIndex = mm.selectedIndex + 1] ELSE mm
      [] k \in {"k", "up"} ->
            IF mm.selectedIndex > 0
            THEN [mm EXCEPT !.selectedIndex = mm.selectedIndex - 1] ELSE mm
      [] k \in {"enter", "l", "right"} ->
            IF Len(config.connections) > 0 THEN handleConnectionSelect(mm) ELSE mm
      [] k = "a" -> showAddConnectionForm(mm)
      [] k = "e" ->
            IF Len(config.connections) > 0 THEN showEditConnectionForm(mm, getOk) ELSE mm
      [] k = "d" ->
            IF Len(config.connections) > 0 THEN handleDeleteConnection(mm) ELSE mm
      [] k = "c" -> showCredentialsManager(mm)
      [] OTHER -> mm

\* Does 'e' read a stored password from the keyring?
EditReadsKeyring(mm, k) ==
    /\ k = "e"
    /\ mm.selectedIndex < Len(config.connections)
    /\ KeyringHas(keyring, "conn", config.connections[mm.selectedIndex + 1].id)

ConnectionsListKey(k) ==
    /\ pc = "tui"
    /\ Dispatch(m, k) = "ViewConnections"
    /\ \E getOk \in Outcomes(EditReadsKeyring(m, k)) :
          /\ m' = updateConnectionsList(m, k, getOk)
          /\ faults' = faults + Failed(getOk)
    /\ faults' <= MaxFaults
    /\ ops' = <<>>
    /\ UNCHANGED <<pc, config, disk, keyring, uuids, edits, quitCmd, session>>
    /\ UNCHANGED <<browserVars, modalVars, localVars, termVars>>

\* Model.updateSelectionMenu
SelectionMenuKey(k) ==
    /\ pc = "tui"
    /\ Dispatch(m, k) = "ViewSelectionMenu"
    /\ ops' = <<>>
    /\ CASE k \in {"j", "down"} ->
                /\ m' = IF m.menuSelection < 1
                        THEN [m EXCEPT !.menuSelection = m.menuSelection + 1] ELSE m
                /\ UNCHANGED <<pc, quitCmd>>
         [] k \in {"k", "up"} ->
                /\ m' = IF m.menuSelection > 0
                        THEN [m EXCEPT !.menuSelection = m.menuSelection - 1] ELSE m
                /\ UNCHANGED <<pc, quitCmd>>
         [] k \in {"enter", "l", "right"} ->
                /\ pc' = "quit"
                /\ quitCmd' = "menu"
                /\ UNCHANGED m
         [] k \in {"esc", "h", "left"} ->
                /\ m' = [m EXCEPT !.state = "ViewConnections",
                                  !.selectedConnection = Nil,
                                  !.menuSelection = 0]
                /\ UNCHANGED <<pc, quitCmd>>
         [] OTHER -> UNCHANGED <<pc, quitCmd, m>>
    /\ UNCHANGED <<config, disk, keyring, uuids, edits, faults, session>>
    /\ UNCHANGED <<browserVars, modalVars, localVars, termVars>>

\* What a handler with side effects leaves behind.
Outcome(mm, cfg, dsk, kr, log) ==
    [m |-> mm, config |-> cfg, disk |-> dsk, keyring |-> kr, ops |-> log]

\* A handleFormSubmit that goes on to persist the record when the keyring
\* write has failed.
handleFormSubmitIgnoresKeyring(mm, id, setOk, saveOk, loadOk) ==
    LET f == mm.form
        conn == GetConnection(f, id)
        password == GetPassword(f)
        setLog == IF password # <<>> THEN <<Op("keyring.Set", setOk)>> ELSE <<>>
        kr1 == IF password # <<>> /\ setOk
               THEN KeyringSet(keyring, "conn", conn.id, password) ELSE keyring
        found == FindIndex(config.connections, conn.id) # 0
        saved == f.mode = "add" \/ found
        cfg1 == IF f.mode = "add" THEN AddConnection(config, conn)
                ELSE IF found THEN UpdateConnection(config, conn)
                ELSE config
        dsk1 == IF saved THEN Save(cfg1, disk, saveOk) ELSE disk
        saveLog == IF saved THEN <<Op("config.Save", saveOk)>> ELSE <<>>
    IN IF ~(saved /\ saveOk)
       THEN Outcome([mm EXCEPT !.err = "failed to save connection"],
                    cfg1, dsk1, kr1, setLog \o saveLog)
       ELSE IF ~loadOk
       THEN Outcome([mm EXCEPT !.err = "failed to reload config"],
                    cfg1, dsk1, kr1, setLog \o saveLog)
       ELSE Outcome([mm EXCEPT !.form = Nil, !.state = "ViewConnections", !.err = NoErr],
                    dsk1, dsk1, kr1, setLog \o saveLog)

\* Model.handleFormSubmit, with mm.form already updated.  id is the identity
\* uuid.New() returns; setOk, saveOk and loadOk say whether the keyring write,
\* Config.Save and config.Load succeed.
handleFormSubmit(mm, id, setOk, saveOk, loadOk) ==
    LET f == mm.form
        conn == GetConnection(f, id)
        password == GetPassword(f)
        setLog == IF password # <<>> THEN <<Op("keyring.Set", setOk)>> ELSE <<>>
        kr1 == IF password # <<>> /\ setOk
               THEN KeyringSet(keyring, "conn", conn.id, password) ELSE keyring
        found == FindIndex(config.connections, conn.id) # 0
        saved == f.mode = "add" \/ found
        cfg1 == IF f.mode = "add" THEN AddConnection(config, conn)
                ELSE IF found THEN UpdateConnection(config, conn)
                ELSE config
        dsk1 == IF saved THEN Save(cfg1, disk, saveOk) ELSE disk
        saveLog == IF saved THEN <<Op("config.Save", saveOk)>> ELSE <<>>
    IN IF password # <<>> /\ ~setOk
       THEN Outcome([mm EXCEPT !.err = "failed to save password"],
                    config, disk, keyring, setLog)
       ELSE IF ~(saved /\ saveOk)
       THEN Outcome([mm EXCEPT !.err = "failed to save connection"],
                    cfg1, dsk1, kr1, setLog \o saveLog)
       ELSE IF ~loadOk
       THEN Outcome([mm EXCEPT !.err = "failed to reload config"],
                    cfg1, dsk1, kr1, setLog \o saveLog)
       ELSE Outcome([mm EXCEPT !.form = Nil, !.state = "ViewConnections", !.err = NoErr],
                    dsk1, dsk1, kr1, setLog \o saveLog)

\* Model.updateConnectionForm
updateConnectionForm(mm, k, id, setOk, saveOk, loadOk) ==
    IF mm.form = Nil
    THEN Outcome([mm EXCEPT !.state = "ViewConnections"], config, disk, keyring, <<>>)
    ELSE LET f == ConnectionFormUpdate(mm.form, k)
             m1 == [mm EXCEPT !.form = f]
         IN IF f.submitted THEN handleFormSubmit(m1, id, setOk, saveOk, loadOk)
            ELSE IF f.cancelled
            THEN Outcome([m1 EXCEPT !.form = Nil, !.state = "ViewConnections"],
                         config, disk, keyring, <<>>)
            ELSE Outcome(m1, config, disk, keyring, <<>>)

\* Does this key make handleFormSubmit ask uuid.New() for an identity?
FormNeedsId(mm, k) ==
    /\ mm.form # Nil
    /\ ConnectionFormUpdate(mm.form, k).submitted
    /\ mm.form.connID = 0

ConnectionFormKey(k) ==
    /\ pc = "tui"
    /\ Dispatch(m, k) = "ViewConnectionForm"
    /\ LET f == IF m.form = Nil THEN Nil ELSE ConnectionFormUpdate(m.form, k)
           inserts == m.form # Nil /\ FormInserts(m.form, k)
           edited == inserts \/ (m.form # Nil /\ f.iconIndex # m.form.iconIndex)
           needsId == FormNeedsId(m, k)
           submits == m.form # Nil /\ f.submitted
           writes == submits /\ GetPassword(f) # <<>>
       IN /\ inserts => k \in TypedRunes
          /\ edited => edits < MaxEdits
          /\ needsId => uuids < MaxIds
          /\ edits' = IF edited THEN edits + 1 ELSE edits
          /\ uuids' = IF needsId THEN uuids + 1 ELSE uuids
          /\ \E setOk \in Outcomes(writes) :
             \E saveOk \in Outcomes(submits /\ setOk) :
             \E loadOk \in Outcomes(submits /\ setOk /\ saveOk) :
                LET out == updateConnectionForm(m, k, FreshId(uuids), setOk, saveOk, loadOk)
                IN /\ m' = out.m
                   /\ config' = out.config
                   /\ disk' = out.disk
                   /\ keyring' = out.keyring
                   /\ ops' = out.ops
                   /\ faults' = faults + Failed(setOk) + Failed(saveOk) + Failed(loadOk)
          /\ faults' <= MaxFaults
    /\ UNCHANGED <<pc, quitCmd, session>>
    /\ UNCHANGED <<browserVars, modalVars, localVars, termVars>>

\* Does the delete action index the connection list out of range?
CallbackPanics(cap) == cap.selectedIndex >= Len(config.connections)

\* A delete action that stops, with an error and without touching the
\* persisted store, when the keyring delete fails.
confirmationCallbackStopsOnKeyringError(cap, delOk, saveOk) ==
    LET conn == config.connections[cap.selectedIndex + 1]
        had == KeyringHas(keyring, "conn", conn.id)
        cfg1 == IF delOk /\ had THEN DeleteConnection(config, conn.id) ELSE config
        dsk1 == IF delOk /\ had THEN Save(cfg1, disk, saveOk) ELSE disk
        kr1 == IF delOk THEN KeyringDelete(keyring, "conn", conn.id) ELSE keyring
        log == <<Op("keyring.Delete", delOk /\ had)>>
                   \o (IF delOk /\ had THEN <<Op("config.Save", saveOk)>> ELSE <<>>)
        cap1 == IF ~(delOk /\ had /\ saveOk)
                THEN [cap EXCEPT !.err = "failed to delete connection"]
                ELSE [cap EXCEPT
                        !.selectedIndex =
                            IF cap.selectedIndex >= Len(cfg1.connections)
                               /\ cap.selectedIndex > 0
                            THEN cap.selectedIndex - 1 ELSE cap.selectedIndex,
                        !.err = NoErr]
    IN Outcome(Uncapture(cap1), cfg1, dsk1, kr1, log)

\* The closure of handleDeleteConnection (confirmationCallback), run on the
\* Model it captured.  delOk and saveOk say whether the keyring delete and
\* Config.Save succeed.
confirmationCallback(cap, delOk, saveOk) ==
    LET conn == config.connections[cap.selectedIndex + 1]
        had == KeyringHas(keyring, "conn", conn.id)
        kr1 == IF delOk THEN KeyringDelete(keyring, "conn", conn.id) ELSE keyring
        found == FindIndex(config.connections, conn.id) # 0
        cfg1 == IF found THEN DeleteConnection(config, conn.id) ELSE config
        dsk1 == IF found THEN Save(cfg1, disk, saveOk) ELSE disk
        log == <<Op("keyring.Delete", delOk /\ had)>>
                   \o (IF found THEN <<Op("config.Save", saveOk)>> ELSE <<>>)
        cap1 == IF ~(found /\ saveOk)
                THEN [cap EXCEPT !.err = "failed to delete connection"]
                ELSE [cap EXCEPT
                        !.selectedIndex =
                            IF cap.selectedIndex >= Len(cfg1.connections)
                               /\ cap.selectedIndex > 0
                            THEN cap.selectedIndex - 1 ELSE cap.selectedIndex,
                        !.err = NoErr]
    IN Outcome(Uncapture(cap1), cfg1, dsk1, kr1, log)

\* An updateConfirmationModal that runs the delete action when the modal is
\* cancelled, too.
updateConfirmationModalRunsOnCancel(mm, k, delOk, saveOk) ==
    LET md == ConfirmationModalUpdate(mm.confirmationModal, k)
    IN IF md.confirmed \/ md.cancelled
       THEN IF mm.confirmationCallback # Nil
            THEN confirmationCallback(mm.confirmationCallback.captured, delOk, saveOk)
            ELSE Outcome([mm EXCEPT !.showingConfirmation = FALSE,
                                    !.confirmationModal = Nil],
                         config, disk, keyring, <<>>)
       ELSE Outcome([mm EXCEPT !.confirmationModal = md], config, disk, keyring, <<>>)

\* Model.updateConfirmationModal
updateConfirmationModal(mm, k, delOk, saveOk) ==
    LET md == ConfirmationModalUpdate(mm.confirmationModal, k)
    IN IF md.confirmed
       THEN IF mm.confirmationCallback # Nil
            THEN confirmationCallback(mm.confirmationCallback.captured, delOk, saveOk)
            ELSE Outcome([mm EXCEPT !.showingConfirmation = FALSE,
                                    !.confirmationModal = Nil],
                         config, disk, keyring, <<>>)
       ELSE IF md.cancelled
       THEN Outcome([mm EXCEPT !.showingConfirmation = FALSE,
                               !.confirmationModal = Nil,
                               !.confirmationCallback = Nil],
                    config, disk, keyring, <<>>)
       ELSE Outcome([mm EXCEPT !.confirmationModal = md], config, disk, keyring, <<>>)

\* Does this key run the delete action?
RunsCallback(mm, k) ==
    /\ ConfirmationModalUpdate(mm.confirmationModal, k).confirmed
    /\ mm.confirmationCallback # Nil

\* Is there a stored password for the connection the delete action removes?
CallbackHasPassword(mm) ==
    LET cap == mm.confirmationCallback.captured
    IN /\ ~CallbackPanics(cap)
       /\ KeyringHas(keyring, "conn", config.connections[cap.selectedIndex + 1].id)

ConfirmationModalKey(k) ==
    /\ pc = "tui"
    /\ Dispatch(m, k) = "modal"
    /\ IF RunsCallback(m, k) /\ CallbackPanics(m.confirmationCallback.captured)
       THEN /\ pc' = "crashed"
            /\ ops' = <<>>
            /\ UNCHANGED <<m, config, disk, keyring, faults>>
       ELSE /\ \E delOk \in Outcomes(RunsCallback(m, k) /\ CallbackHasPassword(m)),
                  saveOk \in Outcomes(RunsCallback(m, k)) :
                  LET out == updateConfirmationModal(m, k, delOk, saveOk)
                  IN /\ m' = out.m
                     /\ config' = out.config
                     /\ disk' = out.disk
                     /\ keyring' = out.keyring
                     /\ ops' = out.ops
                     /\ faults' = faults + Failed(delOk) + Failed(saveOk)
            /\ faults' <= MaxFaults
            /\ UNCHANGED pc
    /\ UNCHANGED <<uuids, edits, quitCmd, session>>
    /\ UNCHANGED <<browserVars, modalVars, localVars, termVars>>

\* ---------------------------------------------------------- credential form
CredCharLimits == <<LabelCharLimit, UsernameCharLimit, PasswordCharLimit>>

NewCredentialForm(mode, cred, kr, getOk) ==
    LET edit == mode = "edit" /\ cred # Nil
        stored == edit /\ getOk /\ KeyringHas(kr, "cred", cred.id)
    IN [mode |-> mode,
        credID |-> IF edit THEN cred.id ELSE 0,
        inputs |-> IF edit
                   THEN <<TextInputSetValue(cred.label, LabelCharLimit),
                          TextInputSetValue(cred.username, UsernameCharLimit),
                          IF stored
                          THEN TextInputSetValue(KeyringGet(kr, "cred", cred.id),
                                                 PasswordCharLimit)
                          ELSE <<>> >>
                   ELSE << <<>>, <<>>, <<>> >>,
        focusIndex |-> 0,
        submitted |-> FALSE,
        cancelled |-> FALSE,
        err |-> NoErr]

credNextField(f) ==
    [f EXCEPT !.focusIndex = IF f.focusIndex + 1 > CredFieldCancel THEN 0
                             ELSE f.focusIndex + 1]
credPrevField(f) ==
    [f EXCEPT !.focusIndex = IF f.focusIndex - 1 < 0 THEN CredFieldCancel
                             ELSE f.focusIndex - 1]

credSubmit(f) ==
    IF f.inputs[CredFieldLabel + 1] = <<>> THEN [f EXCEPT !.err = "label is required"]
    ELSE IF f.inputs[CredFieldUsername + 1] = <<>>
         THEN [f EXCEPT !.err = "username is required"]
    ELSE [f EXCEPT !.submitted = TRUE]

CredFormUpdateInput(f, k) ==
    IF f.focusIndex < Len(f.inputs)
    THEN [f EXCEPT !.inputs[f.focusIndex + 1] =
              TextInputUpdate(f.inputs[f.focusIndex + 1], k,
                              CredCharLimits[f.focusIndex + 1])]
    ELSE f

CredentialFormUpdate(f, k) ==
    CASE k \in {"ctrl+c", "esc"} -> [f EXCEPT !.cancelled = TRUE]
      [] k \in {"tab", "down"} -> credNextField(f)
      [] k \in {"shift+tab", "up"} -> credPrevField(f)
      [] k = "enter" ->
            IF f.focusIndex = CredFieldSubmit THEN credSubmit(f)
            ELSE IF f.focusIndex = CredFieldCancel THEN [f EXCEPT !.cancelled = TRUE]
            ELSE credNextField(f)
      [] OTHER -> CredFormUpdateInput(f, k)

GetCredential(f, id) ==
    [id |-> IF f.credID = 0 THEN id ELSE f.credID,
     label |-> f.inputs[CredFieldLabel + 1],
     username |-> f.inputs[CredFieldUsername + 1]]
CredGetPassword(f) == f.inputs[CredFieldPassword + 1]

CredFormInserts(f, k) ==
    CredFormUpdateInput(f, k) # f /\ CredentialFormUpdate(f, k) = CredFormUpdateInput(f, k)

\* ------------------------------------------------------ credentials manager
AddCredential(cfg, cred) ==
    [cfg EXCEPT !.credentials = Append(cfg.credentials, cred)]
DeleteCredential(cfg, id) ==
    [cfg EXCEPT !.credentials = RemoveAt(cfg.credentials, FindIndex(cfg.credentials, id))]
UpdateCredential(cfg, cred) ==
    [cfg EXCEPT !.credentials[FindIndex(cfg.credentials, cred.id)] = cred]

\* The manager's outcome: cm is the manager, the rest as in Outcome.
CmOutcome(cm, cfg, dsk, kr, log) ==
    [cm |-> cm, config |-> cfg, disk |-> dsk, keyring |-> kr, ops |-> log]

\* CredentialsManagerModel.handleFormSubmit
cmHandleFormSubmit(cm, id, setOk, saveOk, loadOk) ==
    LET f == cm.form
        cred == GetCredential(f, id)
        password == CredGetPassword(f)
        closed == [cm EXCEPT !.showingForm = FALSE, !.form = Nil]
        setLog == IF password # <<>> THEN <<Op("keyring.Set", setOk)>> ELSE <<>>
        kr1 == IF password # <<>> /\ setOk
               THEN KeyringSet(keyring, "cred", cred.id, password) ELSE keyring
        found == FindIndex(config.credentials, cred.id) # 0
        saved == cm.formMode = "add" \/ found
        cfg1 == IF cm.formMode = "add" THEN AddCredential(config, cred)
                ELSE IF found THEN UpdateCredential(config, cred)
                ELSE config
        dsk1 == IF saved THEN Save(cfg1, disk, saveOk) ELSE disk
        saveLog == IF saved THEN <<Op("config.Save", saveOk)>> ELSE <<>>
    IN IF password # <<>> /\ ~setOk
       THEN CmOutcome([closed EXCEPT !.err = "failed to save password to keyring"],
                      config, disk, keyring, setLog)
       ELSE IF password = <<>> /\ cm.formMode = "add"
       THEN CmOutcome([cm EXCEPT !.err = "password is required for new credential"],
                      config, disk, keyring, <<>>)
       ELSE IF ~(saved /\ saveOk)
       THEN CmOutcome([closed EXCEPT !.err = "failed to save credential"],
                      cfg1, dsk1, kr1, setLog \o saveLog)
       ELSE CmOutcome([closed EXCEPT !.err = NoErr],
                      IF loadOk THEN dsk1 ELSE cfg1, dsk1, kr1, setLog \o saveLog)

\* CredentialsManagerModel.updateForm
cmUpdateForm(cm, k, id, setOk, saveOk, loadOk) ==
    LET f == CredentialFormUpdate(cm.form, k)
        cm1 == [cm EXCEPT !.form = f]
    IN IF f.submitted THEN cmHandleFormSubmit(cm1, id, setOk, saveOk, loadOk)
       ELSE IF f.cancelled
       THEN CmOutcome([cm1 EXCEPT !.showingForm = FALSE, !.form = Nil],
                      config, disk, keyring, <<>>)
       ELSE CmOutcome(cm1, config, disk, keyring, <<>>)

\* CredentialsManagerModel.deleteCredential
deleteCredential(cm, delOk, saveOk) ==
    IF cm.selectedIndex >= Len(config.credentials)
    THEN CmOutcome(cm, config, disk, keyring, <<>>)
    ELSE LET cred == config.credentials[cm.selectedIndex + 1]
             had == KeyringHas(keyring, "cred", cred.id)
             kr1 == IF delOk THEN KeyringDelete(keyring, "cred", cred.id) ELSE keyring
             cfg1 == DeleteCredential(config, cred.id)
             dsk1 == Save(cfg1, disk, saveOk)
             log == <<Op("keyring.Delete", delOk /\ had), Op("config.Save", saveOk)>>
         IN IF ~saveOk
            THEN CmOutcome([cm EXCEPT !.err = "failed to delete credential"],
                           cfg1, dsk1, kr1, log)
            ELSE CmOutcome([cm EXCEPT
                               !.selectedIndex =
                                   IF cm.selectedIndex >= Len(cfg1.credentials)
                                      /\ cm.selectedIndex > 0
                                   THEN cm.selectedIndex - 1 ELSE cm.selectedIndex,
                               !.err = NoErr],
                           cfg1, dsk1, kr1, log)

\* CredentialsManagerModel.updateConfirmationModal
cmUpdateConfirmationModal(cm, k, delOk, saveOk) ==
    LET md == ConfirmationModalUpdate(cm.confirmationModal, k)
        hidden == [cm EXCEPT !.showingConfirmation = FALSE, !.confirmationModal = Nil]
    IN IF md.confirmed THEN deleteCredential(hidden, delOk, saveOk)
       ELSE IF k = "esc" \/ md.cancelled
       THEN CmOutcome(hidden, config, disk, keyring, <<>>)
       ELSE CmOutcome([cm EXCEPT !.confirmationModal = md], config, disk, keyring, <<>>)

cmShowAddForm(cm) ==
    [cm EXCEPT !.form = NewCredentialForm("add", Nil, keyring, TRUE),
               !.showingForm = TRUE,
               !.formMode = "add"]
cmShowEditForm(cm, getOk) ==
    IF cm.selectedIndex >= Len(config.credentials) THEN cm
    ELSE [cm EXCEPT !.form = NewCredentialForm("edit",
                                 config.credentials[cm.selectedIndex + 1], keyring, getOk),
                    !.showingForm = TRUE,
                    !.formMode = "edit"]
\* showDeleteConfirmation reads Credentials[selectedIndex] without a bounds check.
cmShowDeleteConfirmation(cm) ==
    [cm EXCEPT !.confirmationModal =
                   NewConfirmationModal(config.credentials[cm.selectedIndex + 1].label),
               !.showingConfirmation = TRUE]

\* The list branch of CredentialsManagerModel.Update.
cmUpdateList(cm, k, getOk) ==
    CASE k \in {"q", "ctrl+c"} -> [cm EXCEPT !.done = TRUE]
      [] k = "esc" -> [cm EXCEPT !.done = TRUE]
      [] k \in {"k", "up"} ->
            IF cm.selectedIndex > 0
            THEN [cm EXCEPT !.selectedIndex = cm.selectedIndex - 1] ELSE cm
      [] k \in {"j", "down"} ->
            IF cm.selectedIndex < Len(config.credentials) - 1
            THEN [cm EXCEPT !.selectedIndex = cm.selectedIndex + 1] ELSE cm
      [] k = "a" -> cmShowAddForm(cm)
      [] k = "e" -> IF Len(config.credentials) > 0 THEN cmShowEditForm(cm, getOk) ELSE cm
      [] k = "d" ->
            IF Len(config.credentials) > 0 THEN cmShowDeleteConfirmation(cm) ELSE cm
      [] OTHER -> cm

\* CredentialsManagerModel.Update for a key
CredentialsManagerUpdate(cm, k, id, getOk, setOk, delOk, saveOk, loadOk) ==
    IF cm.showingConfirmation /\ cm.confirmationModal # Nil
    THEN cmUpdateConfirmationModal(cm, k, delOk, saveOk)
    ELSE IF cm.showingForm /\ cm.form # Nil
    THEN cmUpdateForm(cm, k, id, setOk, saveOk, loadOk)
    ELSE CmOutcome(cmUpdateList(cm, k, getOk), config, disk, keyring, <<>>)

CmInForm(cm) ==
    ~(cm.showingConfirmation /\ cm.confirmationModal # Nil) /\ cm.showingForm /\ cm.form # Nil
\* Does the manager's delete confirmation index the credential list out of range?
CmPanics(cm, k) ==
    /\ ~(cm.showingConfirmation /\ cm.confirmationModal # Nil)
    /\ ~CmInForm(cm)
    /\ k = "d"
    /\ Len(config.credentials) > 0
    /\ cm.selectedIndex >= Len(config.credentials)

\* Does this key run deleteCredential on a credential that is there?
CmDeletes(cm, k) ==
    /\ cm.showingConfirmation /\ cm.confirmationModal # Nil
    /\ ConfirmationModalUpdate(cm.confirmationModal, k).confirmed
    /\ cm.selectedIndex < Len(config.credentials)
CmDeleteHasPassword(cm) ==
    /\ cm.selectedIndex < Len(config.credentials)
    /\ KeyringHas(keyring, "cred", config.credentials[cm.selectedIndex + 1].id)
CmEditReadsKeyring(cm, k) ==
    /\ ~(cm.showingConfirmation /\ cm.confirmationModal # Nil)
    /\ ~CmInForm(cm)
    /\ k = "e"
    /\ CmDeleteHasPassword(cm)

\* Model.updateCredentialsManager
CredentialsManagerKey(k) ==
    /\ pc = "tui"
    /\ Dispatch(m, k) = "ViewCredentials"
    /\ IF m.credentialsManager = Nil
       THEN /\ m' = [m EXCEPT !.state = "ViewConnections"]
            /\ ops' = <<>>
            /\ UNCHANGED <<pc, config, disk, keyring, uuids, edits, faults>>
       ELSE IF CmPanics(m.credentialsManager, k)
       THEN /\ pc' = "crashed"
            /\ ops' = <<>>
            /\ UNCHANGED <<m, config, disk, keyring, uuids, edits, faults>>
       ELSE LET cm == m.credentialsManager
                inserts == CmInForm(cm) /\ CredFormInserts(cm.form, k)
                needsId == /\ CmInForm(cm)
                           /\ CredentialFormUpdate(cm.form, k).submitted
                           /\ cm.form.credID = 0
                submits == CmInForm(cm) /\ CredentialFormUpdate(cm.form, k).submitted
                writes == submits /\ CredGetPassword(cm.form) # <<>>
                saves == submits /\ (writes \/ cm.formMode = "edit")
                deletes == CmDeletes(cm, k)
            IN /\ inserts => (k \in TypedRunes /\ edits < MaxEdits)
               /\ needsId => uuids < MaxIds
               /\ edits' = IF inserts THEN edits + 1 ELSE edits
               /\ uuids' = IF needsId THEN uuids + 1 ELSE uuids
               /\ \E getOk \in Outcomes(CmEditReadsKeyring(cm, k)),
                     delOk \in Outcomes(deletes /\ CmDeleteHasPassword(cm)),
                     setOk \in Outcomes(writes) :
                  \E saveOk \in Outcomes(deletes \/ (saves /\ setOk)) :
                  \E loadOk \in Outcomes(saves /\ setOk /\ saveOk) :
                     LET out == CredentialsManagerUpdate(cm, k, FreshId(uuids),
                                    getOk, setOk, delOk, saveOk, loadOk)
                     IN /\ m' = IF out.cm.done
                                THEN [m EXCEPT !.credentialsManager = Nil,
                                               !.state = "ViewConnections"]
                                ELSE [m EXCEPT !.credentialsManager = out.cm]
                        /\ config' = out.config
                        /\ disk' = out.disk
                        /\ keyring' = out.keyring
                        /\ ops' = out.ops
                        /\ faults' = faults + Failed(getOk) + Failed(delOk)
                                        + Failed(setOk) + Failed(saveOk) + Failed(loadOk)
               /\ faults' <= MaxFaults
               /\ UNCHANGED pc
    /\ UNCHANGED <<quitCmd, session>>
    /\ UNCHANGED <<browserVars, modalVars, localVars, termVars>>

\* --------------------------------------------------------------- main loop
\* main, after p.Run returns without a selected connection: the loop ends.
Exit ==
    /\ pc = "quit"
    /\ m.selectedConnection = Nil
    /\ pc' = "exit"
    /\ ops' = <<>>
    /\ UNCHANGED <<m, config, disk, keyring, uuids, edits, faults, quitCmd, session>>
    /\ UNCHANGED <<browserVars, modalVars, localVars, termVars>>

\* getConnectionPassword: the keyring entry a connection's password is read
\* from and saved to, the shared credential's when the connection names one.
UsesCredential(conn) == conn.authType = "credential" /\ conn.credentialID # 0
PasswordType(conn) == IF UsesCredential(conn) THEN "cred" ELSE "conn"
PasswordId(conn) == IF UsesCredential(conn) THEN conn.credentialID ELSE conn.id

\* main, after p.Run returns with a selected connection: startSSHSession or
\* startSFTPSession, beginning with getConnectionPassword.  getOk says whether
\* the keyring read succeeds; when no password is found the user is prompted
\* and may have it saved (save), a write whose failure is ignored (setOk).
StartSession ==
    /\ pc = "quit"
    /\ m.selectedConnection # Nil
    /\ \E conn \in {m.selectedConnection} :
       \E type \in {PasswordType(conn)}, id \in {PasswordId(conn)} :
          \E getOk \in Outcomes(KeyringHas(keyring, type, id)) :
          \E save \in Outcomes(~(getOk /\ KeyringHas(keyring, type, id))) :
          \E setOk \in Outcomes(~(getOk /\ KeyringHas(keyring, type, id)) /\ save) :
             LET found == getOk /\ KeyringHas(keyring, type, id)
                 write == ~found /\ save
             IN /\ keyring' = IF write /\ setOk
                              THEN KeyringSet(keyring, type, id, <<"p">>)
                              ELSE keyring
                /\ ops' = IF write THEN <<Op("keyring.Set", setOk)>> ELSE <<>>
                /\ session' = [conn |-> conn, type |-> m.menuSelection]
                /\ faults' = faults + Failed(getOk) + Failed(setOk)
    /\ faults' <= MaxFaults
    /\ pc' = "session"
    /\ UNCHANGED <<m, config, disk, uuids, edits, quitCmd>>
    /\ UNCHANGED <<browserVars, modalVars, localVars, termVars>>

\* A main that runs the program it had again when the session ends, instead
\* of building a new Model.
SessionEndKeepsModel ==
    /\ pc \in {"session", "ended"}
    /\ pc' = "tui"
    /\ UNCHANGED <<m, config>>
    /\ faults' = faults
    /\ session' = Nil
    /\ quitCmd' = "none"
    /\ ops' = <<>>
    /\ UNCHANGED <<disk, keyring, uuids, edits>>
    /\ UNCHANGED <<browserVars, modalVars, localVars, termVars>>

\* The session ends, normally or with an error, and main loops: tui.New()
\* loads the configuration again, and exits when that fails.
SessionEnd ==
    /\ pc \in {"session", "ended"}
    /\ \E loadOk \in BOOLEAN :
          /\ IF loadOk
             THEN /\ pc' = "tui"
                  /\ m' = NewModel
                  /\ config' = disk
             ELSE /\ pc' = "exit"
                  /\ UNCHANGED <<m, config>>
          /\ faults' = faults + Failed(loadOk)
    /\ faults' <= MaxFaults
    /\ session' = Nil
    /\ quitCmd' = "none"
    /\ ops' = <<>>
    /\ UNCHANGED <<disk, keyring, uuids, edits>>
    /\ UNCHANGED <<browserVars, modalVars, localVars, termVars>>

\* ------------------------------------------------------------ specification
Init ==
    /\ pc = "tui"
    /\ m = NewModel
    /\ \E n \in 0..MaxSeed :
          disk = [connections |-> SeedConnections(n),
                  credentials |-> SeedCredentials(MaxSeedCred)]
    /\ config = disk
    /\ keyring = SeedKeyring
    /\ uuids = 0
    /\ edits = 0
    /\ faults = 0
    /\ quitCmd = "none"
    /\ session = Nil
    /\ ops = <<>>
    /\ b = Nil
    /\ remote = <<>>
    /\ cwd = <<>>
    /\ modal = Nil
    /\ pressed = <<>>
    /\ downloads = {}
    /\ localPath = <<>>
    /\ shell = 0
    /\ listeners = {}
    /\ resized = {}

Next ==
    \/ \E k \in Keys : ConfirmationModalKey(k)
    \/ \E k \in Keys : GlobalQuit(k)
    \/ \E k \in Keys : Help(k)
    \/ \E k \in Keys : ConnectionsListKey(k)
    \/ \E k \in Keys : ConnectionFormKey(k)
    \/ \E k \in Keys : SelectionMenuKey(k)
    \/ \E k \in Keys : CredentialsManagerKey(k)
    \/ Exit
    \/ StartSession
    \/ SessionEnd

Spec == Init /\ [][Next]_vars

\* ------------------------------------- a configuration with a shared credential
\* config.Load has read a configuration whose one connection authenticates
\* with the one shared credential, whose password is in the keyring.
SharedConnection ==
    [SeedConnection(1) EXCEPT !.authType = "credential",
                              !.credentialID = SeedCredential(1).id]
SharedInit ==
    /\ pc = "tui"
    /\ m = NewModel
    /\ disk = [connections |-> <<SharedConnection>>,
               credentials |-> SeedCredentials(1)]
    /\ config = disk
    /\ keyring = {[type |-> "cred", id |-> SeedCredential(1).id, password |-> <<"p">>]}
    /\ uuids = 0
    /\ edits = 0
    /\ faults = 0
    /\ quitCmd = "none"
    /\ session = Nil
    /\ ops = <<>>
    /\ b = Nil
    /\ remote = <<>>
    /\ cwd = <<>>
    /\ modal = Nil
    /\ pressed = <<>>
    /\ downloads = {}
    /\ localPath = <<>>
    /\ shell = 0
    /\ listeners = {}
    /\ resized = {}

SpecShared == SharedInit /\ [][Next]_vars

\* ----------------------------------------------------------- Go package path
\* Paths and names are sequences of characters.
RECURSIVE SplitFrom(_, _, _, _)
SplitFrom(p, i, cur, acc) ==
    IF i > Len(p) THEN (IF cur = <<>> THEN acc ELSE Append(acc, cur))
    ELSE IF p[i] = "/"
         THEN SplitFrom(p, i + 1, <<>>, IF cur = <<>> THEN acc ELSE Append(acc, cur))
    ELSE SplitFrom(p, i + 1, Append(cur, p[i]), acc)
\* The non-empty elements of a path.
Elements(p) == SplitFrom(p, 1, <<>>, <<>>)

RECURSIVE CleanFrom(_, _, _, _)
CleanFrom(es, i, rooted, out) ==
    IF i > Len(es) THEN out
    ELSE IF es[i] = <<".">> THEN CleanFrom(es, i + 1, rooted, out)
    ELSE IF es[i] = <<".", ".">>
         THEN IF out # <<>> /\ out[Len(out)] # <<".", ".">>
              THEN CleanFrom(es, i + 1, rooted, SubSeq(out, 1, Len(out) - 1))
              ELSE IF rooted THEN CleanFrom(es, i + 1, rooted, out)
              ELSE CleanFrom(es, i + 1, rooted, Append(out, es[i]))
    ELSE CleanFrom(es, i + 1, rooted, Append(out, es[i]))

RECURSIVE JoinElements(_)
JoinElements(es) ==
    IF es = <<>> THEN <<>>
    ELSE IF Len(es) = 1 THEN es[1]
    ELSE es[1] \o <<"/">> \o JoinElements(Tail(es))

\* path.IsAbs
IsAbs(p) == p # <<>> /\ p[1] = "/"
\* The end of path.Clean: the elements that are left are joined again.
Cleaned(rooted, es) ==
    IF ~rooted /\ es = <<>> THEN <<".">>
    ELSE (IF rooted THEN <<"/">> ELSE <<>>) \o JoinElements(es)
\* path.Clean
Clean(p) == Cleaned(IsAbs(p), CleanFrom(Elements(p), 1, IsAbs(p), <<>>))
\* path.Join of two elements
Join(x, y) ==
    IF x = <<>> /\ y = <<>> THEN <<>>
    ELSE Clean(IF x = <<>> THEN y ELSE IF y = <<>> THEN x ELSE x \o <<"/">> \o y)
RECURSIVE LastSlash(_, _)
LastSlash(p, i) == IF i = 0 THEN 0 ELSE IF p[i] = "/" THEN i ELSE LastSlash(p, i - 1)
\* path.Dir
Dir(p) == Clean(SubSeq(p, 1, LastSlash(p, Len(p))))
\* path.Base of a cleaned path that is not the root
Base(p) == SubSeq(p, LastSlash(p, Len(p)) + 1, Len(p))

\* ------------------------------------------------------ the remote server
\* The remote file system is the sequence of its entries, each with its
\* absolute path, in the order in which the server lists them.
RECURSIVE FindPath(_, _, _)
FindPath(rem, p, i) ==
    IF i > Len(rem) THEN 0 ELSE IF rem[i].path = p THEN i ELSE FindPath(rem, p, i + 1)
\* The directory the server resolves relative paths against, which is also
\* what Getwd returns when the client connects.
RemoteHome == <<"/">>
Root == <<"/">>
\* The absolute path the server reads a path as.
Resolve(p) == Clean(IF IsAbs(p) THEN p ELSE RemoteHome \o <<"/">> \o p)
\* What is at position i of the remote file system, i = 0 for nothing.
Kind(rem, q, i) ==
    IF q = Root THEN "dir"
    ELSE IF i = 0 THEN "none"
    ELSE IF rem[i].isDir THEN "dir" ELSE "file"
\* What is at the absolute path q.
KindAt(rem, q) == Kind(rem, q, FindPath(rem, q, 1))
\* sftpClient.Stat
Stat(rem, p) == KindAt(rem, Resolve(p))
InDir(e, d) == Dir(e.path) = d /\ e.path # d
\* The entries directly in the directory with the absolute path q.
ChildrenAt(rem, q) == SelectSeq(rem, LAMBDA e : InDir(e, q))
FileInfo(e) == [name |-> Base(e.path), isDir |-> e.isDir]
FileInfos(es) == [i \in 1..Len(es) |-> FileInfo(es[i])]

\* sftp.Client.ListDir; ok says whether the server answers.
ListDir(rem, p, ok) ==
    IF ok /\ Stat(rem, p) = "dir"
    THEN [err |-> NoErr, files |-> FileInfos(ChildrenAt(rem, Resolve(p)))]
    ELSE [err |-> "failed to read directory", files |-> <<>>]

\* sftp.Client.ChangeDir after its Stat: the error, and the client's working
\* directory.
ChangeDirOn(kind, wd, p, ok) ==
    IF ~ok \/ kind = "none" THEN [err |-> "directory not found", cwd |-> wd]
    ELSE IF kind # "dir" THEN [err |-> "is not a directory", cwd |-> wd]
    ELSE [err |-> NoErr, cwd |-> Clean(IF IsAbs(p) THEN p ELSE Join(wd, p))]
\* sftp.Client.ChangeDir
ChangeDir(rem, wd, p, ok) == ChangeDirOn(Stat(rem, p), wd, p, ok)

\* sftpClient.Create of the absolute path q: an existing file is truncated.
CreateAt(rem, q, ok) ==
    IF ~ok \/ KindAt(rem, Dir(q)) # "dir" \/ KindAt(rem, q) = "dir"
    THEN [err |-> "failed to create file", remote |-> rem]
    ELSE [err |-> NoErr,
          remote |-> IF KindAt(rem, q) = "file" THEN rem
                     ELSE Append(rem, [path |-> q, isDir |-> FALSE])]
\* sftp.Client.CreateFile
CreateFile(rem, p, ok) == CreateAt(rem, Resolve(p), ok)

\* sftpClient.Mkdir of the absolute path q
MkdirAt(rem, q, ok) ==
    IF ~ok \/ KindAt(rem, Dir(q)) # "dir" \/ KindAt(rem, q) # "none"
    THEN [err |-> "failed to create directory", remote |-> rem]
    ELSE [err |-> NoErr, remote |-> Append(rem, [path |-> q, isDir |-> TRUE])]
\* sftp.Client.CreateDirectory
CreateDirectory(rem, p, ok) == MkdirAt(rem, Resolve(p), ok)

\* sftp.Client.Delete of the entry at position i with the absolute path q:
\* RemoveDirectory wants the directory empty.
DeleteAt(rem, q, i, ok) ==
    IF ~ok \/ q = Root \/ i = 0
    THEN [err |-> "failed to stat item", remote |-> rem]
    ELSE IF rem[i].isDir /\ ChildrenAt(rem, q) # <<>>
    THEN [err |-> "failed to delete", remote |-> rem]
    ELSE [err |-> NoErr, remote |-> RemoveAt(rem, i)]
\* sftp.Client.Delete
Delete(rem, p, ok) == DeleteAt(rem, Resolve(p), FindPath(rem, Resolve(p), 1), ok)

IsUnder(q, d) == Len(q) > Len(d) /\ SubSeq(q, 1, Len(d) + 1) = d \o <<"/">>
\* sftpClient.Rename of the absolute path o to the absolute path n: the target
\* must not exist; what is under a renamed directory moves with it.
RenameAt(rem, o, n, ok) ==
    IF \/ ~ok \/ o = Root \/ KindAt(rem, o) = "none" \/ KindAt(rem, n) # "none"
       \/ KindAt(rem, Dir(n)) # "dir" \/ IsUnder(n, o)
    THEN [err |-> "failed to rename", remote |-> rem]
    ELSE [err |-> NoErr,
          remote |-> [i \in 1..Len(rem) |->
                         IF rem[i].path = o THEN [rem[i] EXCEPT !.path = n]
                         ELSE IF IsUnder(rem[i].path, o)
                         THEN [rem[i] EXCEPT !.path =
                                  n \o SubSeq(rem[i].path, Len(o) + 1, Len(rem[i].path))]
                         ELSE rem[i]]]
\* sftp.Client.Rename
Rename(rem, old, new, ok) == RenameAt(rem, Resolve(old), Resolve(new), ok)

\* ------------------------------------------------------- SFTP file browser
\* The keys the user presses in the browser; D, the download, is DownloadKey.
BrowserKeys == {"up", "down", "ctrl+u", "ctrl+d", "G", "g", "h", "l", "enter", "~", ".",
                "n", "N", "d", "r", "y", "Y", "e", "q", "esc", "a"}
\* The characters the model lets the user type into the browser's inputs.
BrowserTyped == {"a"}

NewBrowserModel(wd) ==
    [files |-> <<>>,
     selectedIndex |-> 0,
     scrollOffset |-> 0,
     currentPath |-> wd,
     state |-> "Browsing",
     pathInput |-> <<>>,
     nameInput |-> <<>>,
     showHidden |-> FALSE,
     err |-> NoErr,
     successMsg |-> "",
     height |-> 0,
     fileToEdit |-> <<>>]

IsHidden(f) == f.name # <<>> /\ f.name[1] = "."

\* loadCurrentDirectory: the entries that are shown.
Shown(bb, files) ==
    IF bb.showHidden THEN files ELSE SelectSeq(files, LAMBDA f : ~IsHidden(f))
\* loadCurrentDirectory: the new listing is taken.
Listed(bb, files) ==
    [bb EXCEPT !.files = files,
               !.err = NoErr,
               !.selectedIndex = IF bb.selectedIndex >= Len(files) THEN 0
                                 ELSE bb.selectedIndex,
               !.scrollOffset = 0]
\* loadCurrentDirectory after its ListDir has answered r.
Loaded(bb, r) ==
    IF r.err # NoErr THEN [bb EXCEPT !.err = r.err] ELSE Listed(bb, Shown(bb, r.files))
\* SFTPBrowserModel.loadCurrentDirectory
loadCurrentDirectory(bb, rem, listOk) == Loaded(bb, ListDir(rem, bb.currentPath, listOk))

\* SFTPBrowserModel.getVisibleFileCount
getVisibleFileCount(bb) ==
    LET reservedLines == IF bb.err # NoErr \/ bb.successMsg # ""
                         THEN ReservedLines + MessageLines ELSE ReservedLines
        availableLines == bb.height - reservedLines
    IN IF availableLines < 1 THEN 1 ELSE availableLines

\* SFTPBrowserModel.adjustScroll
adjustScroll(bb) ==
    LET visibleLines == getVisibleFileCount(bb)
        up == IF bb.selectedIndex < bb.scrollOffset
              THEN [bb EXCEPT !.scrollOffset = bb.selectedIndex] ELSE bb
    IN IF visibleLines <= 0 THEN bb
       ELSE IF up.selectedIndex >= up.scrollOffset + visibleLines
       THEN [up EXCEPT !.scrollOffset = up.selectedIndex - visibleLines + 1]
       ELSE up

\* What a browser handler leaves behind: the browser, the remote file system,
\* the client's working directory, the remote operations it invoked, and how
\* the handler ended: "none", "quit" (tea.Quit) or "panic".
BOutcome(bb, rem, wd, log, end) ==
    [b |-> bb, remote |-> rem, cwd |-> wd, ops |-> log, end |-> end]

\* Does reading files[selectedIndex] panic?
IndexPanics(bb) == bb.selectedIndex < 0 \/ bb.selectedIndex >= Len(bb.files)
Selected(bb) == bb.files[bb.selectedIndex + 1]

\* A handler's outcome when it ends with loadCurrentDirectory, which has left
\* the browser as loaded.
Reloaded(loaded, rem, wd, before) ==
    BOutcome(loaded, rem, wd, Append(before, Op("sftp.ListDir", loaded.err = NoErr)), "none")

\* What follows ChangeDir when it has answered r.
changedDir(bb, rem, wd, r, listOk) ==
    IF r.err = NoErr
    THEN Reloaded(loadCurrentDirectory([bb EXCEPT !.currentPath = r.cwd], rem, listOk),
                  rem, r.cwd, <<Op("sftp.ChangeDir", TRUE)>>)
    ELSE BOutcome([bb EXCEPT !.err = r.err], rem, wd, <<Op("sftp.ChangeDir", FALSE)>>, "none")

\* The change of directory shared by goToParentDirectory, enterSelected and
\* updateGoToPath.
changeTo(bb, rem, wd, p, opOk, listOk) ==
    changedDir(bb, rem, wd, ChangeDir(rem, wd, p, opOk), listOk)

\* SFTPBrowserModel.goToParentDirectory
goToParentDirectory(bb, rem, wd, opOk, listOk) ==
    IF bb.currentPath = Root THEN BOutcome(bb, rem, wd, <<>>, "none")
    ELSE changeTo(bb, rem, wd, Dir(bb.currentPath), opOk, listOk)

\* SFTPBrowserModel.enterSelected
enterSelected(bb, rem, wd, opOk, listOk) ==
    IF Len(bb.files) = 0 \/ bb.selectedIndex >= Len(bb.files)
    THEN BOutcome(bb, rem, wd, <<>>, "none")
    ELSE IF IndexPanics(bb) THEN BOutcome(bb, rem, wd, <<>>, "panic")
    ELSE IF Selected(bb).isDir
    THEN changeTo(bb, rem, wd, Join(bb.currentPath, Selected(bb).name), opOk, listOk)
    ELSE BOutcome(bb, rem, wd, <<>>, "none")

\* The end of updateBrowsing's key switch: both messages are cleared.
Cleared(out) ==
    IF out.end = "none"
    THEN [out EXCEPT !.b = [out.b EXCEPT !.err = NoErr, !.successMsg = ""]]
    ELSE out
HasSelection(bb) == Len(bb.files) > 0 /\ bb.selectedIndex < Len(bb.files)

\* SFTPBrowserModel.updateBrowsing for a key
updateBrowsing(bb, rem, wd, k, opOk, listOk) ==
    LET same == BOutcome(bb, rem, wd, <<>>, "none")
        jump == Max(1, getVisibleFileCount(bb) \div 2)
    IN CASE k \in {"k", "up"} ->
              Cleared(IF bb.selectedIndex > 0
                      THEN [same EXCEPT !.b = adjustScroll(
                               [bb EXCEPT !.selectedIndex = bb.selectedIndex - 1])]
                      ELSE same)
         [] k \in {"j", "down"} ->
              Cleared(IF bb.selectedIndex < Len(bb.files) - 1
                      THEN [same EXCEPT !.b = adjustScroll(
                               [bb EXCEPT !.selectedIndex = bb.selectedIndex + 1])]
                      ELSE same)
         [] k = "ctrl+u" ->
              Cleared([same EXCEPT !.b = adjustScroll(
                          [bb EXCEPT !.selectedIndex = Max(0, bb.selectedIndex - jump)])])
         [] k = "ctrl+d" ->
              Cleared([same EXCEPT !.b = adjustScroll(
                          [bb EXCEPT !.selectedIndex =
                              IF bb.selectedIndex + jump >= Len(bb.files)
                              THEN Len(bb.files) - 1
                              ELSE bb.selectedIndex + jump])])
         [] k = "G" ->
              Cleared(IF Len(bb.files) > 0
                      THEN [same EXCEPT !.b = adjustScroll(
                               [bb EXCEPT !.selectedIndex = Len(bb.files) - 1])]
                      ELSE same)
         [] k \in {"g", "tab"} ->
              [same EXCEPT !.b = [bb EXCEPT
                  !.state = "GoToPath",
                  !.pathInput = TextInputSetValue(bb.currentPath, PathCharLimit)]]
         [] k \in {"h", "left"} -> Cleared(goToParentDirectory(bb, rem, wd, opOk, listOk))
         [] k \in {"l", "right", "enter"} -> Cleared(enterSelected(bb, rem, wd, opOk, listOk))
         [] k = "~" ->
              Cleared(Reloaded(loadCurrentDirectory([bb EXCEPT !.currentPath = <<"~">>],
                                                    rem, listOk),
                               rem, wd, <<>>))
         [] k = "." ->
              Cleared(Reloaded(loadCurrentDirectory(
                                   [bb EXCEPT !.showHidden = ~bb.showHidden], rem, listOk),
                               rem, wd, <<>>))
         [] k = "n" ->
              [same EXCEPT !.b = [bb EXCEPT !.state = "CreateFile", !.nameInput = <<>>]]
         [] k = "N" ->
              [same EXCEPT !.b = [bb EXCEPT !.state = "CreateDir", !.nameInput = <<>>]]
         [] k = "d" ->
              IF HasSelection(bb)
              THEN [same EXCEPT !.b = [bb EXCEPT !.state = "DeleteConfirm"]]
              ELSE Cleared(same)
         [] k = "r" ->
              IF ~HasSelection(bb) THEN Cleared(same)
              ELSE IF IndexPanics(bb) THEN [same EXCEPT !.end = "panic"]
              ELSE [same EXCEPT !.b = [bb EXCEPT
                       !.state = "Rename",
                       !.nameInput = TextInputSetValue(Selected(bb).name, NameCharLimit)]]
         [] k = "y" ->
              IF HasSelection(bb) /\ IndexPanics(bb) THEN [same EXCEPT !.end = "panic"]
              ELSE Cleared(same)
         [] k = "e" ->
              IF ~HasSelection(bb) THEN Cleared(same)
              ELSE IF IndexPanics(bb) THEN [same EXCEPT !.end = "panic"]
              ELSE IF ~Selected(bb).isDir
              THEN [same EXCEPT
                       !.b = [bb EXCEPT !.fileToEdit =
                                 Join(bb.currentPath, Selected(bb).name)],
                       !.end = "quit"]
              ELSE Cleared(same)
         [] k = "D" ->
              IF ~HasSelection(bb) THEN Cleared(same)
              ELSE IF IndexPanics(bb) THEN [same EXCEPT !.end = "panic"]
              ELSE IF ~Selected(bb).isDir
              THEN Cleared([same EXCEPT !.ops = <<Op("sftp.DownloadFile", opOk)>>])
              ELSE Cleared(same)
         [] k \in {"q", "ctrl+c"} -> [same EXCEPT !.end = "quit"]
         [] OTHER -> Cleared(same)


\* An updateGoToPath whose Esc reloads the listing on its way back to Browsing.
updateGoToPathEscReloads(bb, rem, wd, k, opOk, listOk) ==
    LET browsing == [bb EXCEPT !.state = "Browsing"]
    IN CASE k = "enter" ->
              IF bb.pathInput # <<>>
              THEN changeTo(browsing, rem, wd, bb.pathInput, opOk, listOk)
              ELSE BOutcome(browsing, rem, wd, <<>>, "none")
         [] k = "esc" -> Reloaded(loadCurrentDirectory(browsing, rem, listOk), rem, wd, <<>>)
         [] OTHER ->
              BOutcome([bb EXCEPT !.pathInput = TextInputUpdate(bb.pathInput, k, PathCharLimit)],
                       rem, wd, <<>>, "none")

\* SFTPBrowserModel.updateGoToPath for a key
updateGoToPath(bb, rem, wd, k, opOk, listOk) ==
    LET browsing == [bb EXCEPT !.state = "Browsing"]
    IN CASE k = "enter" ->
              IF bb.pathInput # <<>>
              THEN changeTo(browsing, rem, wd, bb.pathInput, opOk, listOk)
              ELSE BOutcome(browsing, rem, wd, <<>>, "none")
         [] k = "esc" -> BOutcome(browsing, rem, wd, <<>>, "none")
         [] OTHER ->
              BOutcome([bb EXCEPT !.pathInput = TextInputUpdate(bb.pathInput, k, PathCharLimit)],
                       rem, wd, <<>>, "none")

\* The end of a remote change made from an input state or from the delete
\* confirmation: the error is kept, or the success message is set and the
\* directory is read again.
changed(bb, r, wd, op, msg, listOk) ==
    IF r.err # NoErr
    THEN BOutcome([bb EXCEPT !.err = r.err, !.state = "Browsing"], r.remote, wd,
                  <<Op(op, FALSE)>>, "none")
    ELSE Reloaded(loadCurrentDirectory([bb EXCEPT !.successMsg = msg, !.state = "Browsing"],
                                       r.remote, listOk),
                  r.remote, wd, <<Op(op, TRUE)>>)

\* SFTPBrowserModel.updateCreateFile for a key
updateCreateFile(bb, rem, wd, k, opOk, listOk) ==
    LET browsing == [bb EXCEPT !.state = "Browsing"]
    IN CASE k = "enter" ->
              IF bb.nameInput # <<>>
              THEN changed(bb, CreateFile(rem, Join(bb.currentPath, bb.nameInput), opOk),
                           wd, "sftp.CreateFile", "Created file", listOk)
              ELSE BOutcome(browsing, rem, wd, <<>>, "none")
         [] k = "esc" -> BOutcome(browsing, rem, wd, <<>>, "none")
         [] OTHER ->
              BOutcome([bb EXCEPT !.nameInput = TextInputUpdate(bb.nameInput, k, NameCharLimit)],
                       rem, wd, <<>>, "none")

\* SFTPBrowserModel.updateCreateDir for a key
updateCreateDir(bb, rem, wd, k, opOk, listOk) ==
    LET browsing == [bb EXCEPT !.state = "Browsing"]
    IN CASE k = "enter" ->
              IF bb.nameInput # <<>>
              THEN changed(bb, CreateDirectory(rem, Join(bb.currentPath, bb.nameInput), opOk),
                           wd, "sftp.CreateDirectory", "Created directory", listOk)
              ELSE BOutcome(browsing, rem, wd, <<>>, "none")
         [] k = "esc" -> BOutcome(browsing, rem, wd, <<>>, "none")
         [] OTHER ->
              BOutcome([bb EXCEPT !.nameInput = TextInputUpdate(bb.nameInput, k, NameCharLimit)],
                       rem, wd, <<>>, "none")

\* SFTPBrowserModel.updateRename for a key
updateRename(bb, rem, wd, k, opOk, listOk) ==
    LET browsing == [bb EXCEPT !.state = "Browsing"]
    IN CASE k = "enter" ->
              IF bb.nameInput # <<>> /\ bb.selectedIndex < Len(bb.files)
              THEN IF IndexPanics(bb) THEN BOutcome(bb, rem, wd, <<>>, "panic")
                   ELSE changed(bb,
                                Rename(rem, Join(bb.currentPath, Selected(bb).name),
                                       Join(bb.currentPath, bb.nameInput), opOk),
                                wd, "sftp.Rename", "Renamed", listOk)
              ELSE BOutcome(browsing, rem, wd, <<>>, "none")
         [] k = "esc" -> BOutcome(browsing, rem, wd, <<>>, "none")
         [] OTHER ->
              BOutcome([bb EXCEPT !.nameInput = TextInputUpdate(bb.nameInput, k, NameCharLimit)],
                       rem, wd, <<>>, "none")

\* A delete confirmation that Enter confirms too.
updateDeleteConfirmEnterConfirms(bb, rem, wd, k, opOk, listOk) ==
    LET browsing == [bb EXCEPT !.state = "Browsing"]
    IN CASE k \in {"y", "Y", "enter"} ->
              IF bb.selectedIndex < Len(bb.files)
              THEN IF IndexPanics(bb) THEN BOutcome(bb, rem, wd, <<>>, "panic")
                   ELSE changed(bb, Delete(rem, Join(bb.currentPath, Selected(bb).name), opOk),
                                wd, "sftp.Delete", "Deleted", listOk)
              ELSE BOutcome(browsing, rem, wd, <<>>, "none")
         [] k \in {"n", "N", "esc"} -> BOutcome(browsing, rem, wd, <<>>, "none")
         [] OTHER -> BOutcome(bb, rem, wd, <<>>, "none")

\* SFTPBrowserModel.updateDeleteConfirm for a key
updateDeleteConfirm(bb, rem, wd, k, opOk, listOk) ==
    LET browsing == [bb EXCEPT !.state = "Browsing"]
    IN CASE k \in {"y", "Y"} ->
              IF bb.selectedIndex < Len(bb.files)
              THEN IF IndexPanics(bb) THEN BOutcome(bb, rem, wd, <<>>, "panic")
                   ELSE changed(bb, Delete(rem, Join(bb.currentPath, Selected(bb).name), opOk),
                                wd, "sftp.Delete", "Deleted", listOk)
              ELSE BOutcome(browsing, rem, wd, <<>>, "none")
         [] k \in {"n", "N", "esc"} -> BOutcome(browsing, rem, wd, <<>>, "none")
         [] OTHER -> BOutcome(bb, rem, wd, <<>>, "none")

\* textinput.Model.Blur on the way back to Browsing.  The text of a blurred
\* input is never read again: g, n, N and r set the value anew (SetValue)
\* before the input is shown, so the model records the blurred inputs as empty.
Blur(out) ==
    IF out.b.state = "Browsing"
    THEN [out EXCEPT !.b = [out.b EXCEPT !.pathInput = <<>>, !.nameInput = <<>>]]
    ELSE out

\* SFTPBrowserModel.Update for a key
BrowserUpdate(bb, rem, wd, k, opOk, listOk) ==
    CASE bb.state = "GoToPath" -> Blur(updateGoToPath(bb, rem, wd, k, opOk, listOk))
      [] bb.state = "CreateFile" -> Blur(updateCreateFile(bb, rem, wd, k, opOk, listOk))
      [] bb.state = "CreateDir" -> Blur(updateCreateDir(bb, rem, wd, k, opOk, listOk))
      [] bb.state = "Rename" -> Blur(updateRename(bb, rem, wd, k, opOk, listOk))
      [] bb.state = "DeleteConfirm" -> updateDeleteConfirm(bb, rem, wd, k, opOk, listOk)
      [] OTHER -> updateBrowsing(bb, rem, wd, k, opOk, listOk)

\* The states in which keys go to a text input.
InputStates == {"GoToPath", "CreateFile", "CreateDir", "Rename"}

\* The user's edits in one key event: a character typed into an input, and a
\* change of the remote file system.
Changes(bb, rem, k, rem2) ==
    (IF bb.state \in InputStates /\ k \in BrowserTyped THEN 1 ELSE 0)
    + (IF rem2 # rem THEN 1 ELSE 0)

\* startSFTPSession runs the browser: one key event.  opOk says whether the
\* remote operation the handler starts with succeeds, listOk whether the
\* directory listing that follows it does; a failure is counted only when it
\* changes what the handler does.
BrowserKey(k) ==
    /\ pc = "browser"
    /\ b.state \in InputStates => k \in {"enter", "esc"} \cup BrowserTyped
    /\ \E outs \in {[o \in BOOLEAN \X BOOLEAN |->
                        BrowserUpdate(b, remote, cwd, k, o[1], o[2])]} :
       \E opOk, listOk \in BOOLEAN :
          \E out \in {outs[<<opOk, listOk>>]} :
             /\ ~opOk => out # outs[<<TRUE, listOk>>]
             /\ ~listOk => out # outs[<<opOk, TRUE>>]
             /\ faults' = faults + Failed(opOk) + Failed(listOk)
             /\ edits' = edits + Changes(b, remote, k, out.remote)
             /\ b' = out.b
             /\ remote' = out.remote
             /\ cwd' = out.cwd
             /\ ops' = out.ops
             /\ pc' = CASE out.end = "panic" -> "crashed"
                        [] out.end = "quit" ->
                              IF out.b.fileToEdit # <<>> THEN "editing" ELSE "closed"
                        [] OTHER -> "browser"
    /\ faults' <= MaxFaults
    /\ edits' <= MaxEdits
    /\ UNCHANGED <<m, config, disk, keyring, uuids, quitCmd, session, modalVars, localVars, termVars>>

\* SFTPBrowserModel.Update for a tea.WindowSizeMsg
BrowserWindowSize ==
    /\ pc = "browser"
    /\ b.height # WindowHeight
    /\ b' = [b EXCEPT !.height = WindowHeight]
    /\ ops' = <<>>
    /\ UNCHANGED <<pc, m, config, disk, keyring, uuids, edits, faults, quitCmd, session>>
    /\ UNCHANGED <<remote, cwd, modalVars, localVars, termVars>>

\* An operation of the edit round trip on a path.
EditOp(op, ok, p) == [op |-> op, ok |-> ok, path |-> p]
\* os.TempDir()
TempDir == <<"/", "T">>

\* An editRemoteFile that uploads whatever the editor's exit status was.
editRemoteFileUploadsAnyway(remotePath, dlOk, edOk, upOk) ==
    LET tmp == Join(TempDir, Base(remotePath))
    IN IF ~dlOk THEN <<EditOp("sftp.DownloadFile", FALSE, remotePath)>>
       ELSE <<EditOp("sftp.DownloadFile", TRUE, remotePath), EditOp("exec.Run", edOk, tmp),
              EditOp("sftp.UploadFile", upOk, remotePath)>>

\* editRemoteFile: what it does, in order, when the download, the editor and
\* the upload answer dlOk, edOk and upOk; each failure returns at once.
editRemoteFile(remotePath, dlOk, edOk, upOk) ==
    LET tmp == Join(TempDir, Base(remotePath))
    IN IF ~dlOk THEN <<EditOp("sftp.DownloadFile", FALSE, remotePath)>>
       ELSE IF ~edOk
       THEN <<EditOp("sftp.DownloadFile", TRUE, remotePath), EditOp("exec.Run", FALSE, tmp)>>
       ELSE <<EditOp("sftp.DownloadFile", TRUE, remotePath), EditOp("exec.Run", TRUE, tmp),
              EditOp("sftp.UploadFile", upOk, remotePath)>>

\* A startSFTPSession that builds the next browser, which lists the working
\* directory, before editRemoteFile has run.
EditDoneStartsBrowserFirst ==
    /\ pc = "editing"
    /\ \E dlOk \in BOOLEAN :
       \E edOk \in Outcomes(dlOk) :
       \E upOk \in Outcomes(dlOk /\ edOk) :
       \E listOk \in BOOLEAN :
          /\ b' = loadCurrentDirectory(NewBrowserModel(cwd), remote, listOk)
          /\ ops' = <<Op("sftp.ListDir", b'.err = NoErr)>>
                        \o editRemoteFile(b.fileToEdit, dlOk, edOk, upOk)
          /\ faults' = faults + Failed(dlOk) + Failed(edOk) + Failed(upOk) + Failed(listOk)
    /\ faults' <= MaxFaults
    /\ pc' = "browser"
    /\ UNCHANGED <<m, config, disk, keyring, uuids, edits, quitCmd, session>>
    /\ UNCHANGED <<remote, cwd, modalVars, localVars, termVars>>

\* startSFTPSession once the browser program has returned with a file to
\* edit: editRemoteFile on that path, then the loop builds a new browser on
\* the same client.
EditDone ==
    /\ pc = "editing"
    /\ \E dlOk \in BOOLEAN :
       \E edOk \in Outcomes(dlOk) :
       \E upOk \in Outcomes(dlOk /\ edOk) :
       \E listOk \in BOOLEAN :
          /\ b' = loadCurrentDirectory(NewBrowserModel(cwd), remote, listOk)
          /\ ops' = Append(editRemoteFile(b.fileToEdit, dlOk, edOk, upOk),
                           Op("sftp.ListDir", b'.err = NoErr))
          /\ faults' = faults + Failed(dlOk) + Failed(edOk) + Failed(upOk) + Failed(listOk)
    /\ faults' <= MaxFaults
    /\ pc' = "browser"
    /\ UNCHANGED <<m, config, disk, keyring, uuids, edits, quitCmd, session>>
    /\ UNCHANGED <<remote, cwd, modalVars, localVars, termVars>>

\* The remote file system when the session starts: in the home directory a
\* directory d, a file a and a hidden file .h; in d, n files.
SeedRemote(n) ==
    << [path |-> <<"/", "d">>, isDir |-> TRUE],
       [path |-> <<"/", "a">>, isDir |-> FALSE],
       [path |-> <<"/", ".", "h">>, isDir |-> FALSE] >>
    \o [i \in 1..n |-> [path |-> <<"/", "d", "/", DigitChars[i + 1]>>, isDir |-> FALSE]]

\* startSFTPSession has connected and built the browser (NewSFTPBrowser).
BrowserInit ==
    /\ pc = "browser"
    /\ m = [NewModel EXCEPT !.state = "ViewSelectionMenu",
                            !.selectedConnection = SeedConnection(1),
                            !.menuSelection = 1]
    /\ disk = [connections |-> SeedConnections(1), credentials |-> <<>>]
    /\ config = disk
    /\ keyring = SeedKeyring
    /\ uuids = 0
    /\ edits = 0
    /\ faults = 0
    /\ quitCmd = "menu"
    /\ session = [conn |-> SeedConnection(1), type |-> 1]
    /\ ops = <<>>
    /\ \E n \in 0..MaxFiles : remote = SeedRemote(n)
    /\ cwd = RemoteHome
    /\ b = loadCurrentDirectory(NewBrowserModel(cwd), remote, TRUE)
    /\ modal = Nil
    /\ pressed = <<>>
    /\ downloads = {}
    /\ localPath = <<>>
    /\ shell = 0
    /\ listeners = {}
    /\ resized = {}

BrowserNext ==
    \/ \E k \in BrowserKeys : BrowserKey(k)
    \/ BrowserWindowSize
    \/ EditDone

SpecBrowser == BrowserInit /\ [][BrowserNext]_vars

\* ------------------------------------------------- downloads to ~/Downloads
\* Paths that exist under ~/Downloads at most.
MaxLocal == 4

\* filepath.Join(homeDir, "Downloads")
DownloadsDir == <<"/", "D">>

\* filepath.Ext: the suffix of the last element that begins at its last dot.
RECURSIVE ExtFrom(_, _)
ExtFrom(p, i) ==
    IF i < 1 \/ p[i] = "/" THEN <<>>
    ELSE IF p[i] = "." THEN SubSeq(p, i, Len(p))
    ELSE ExtFrom(p, i - 1)
Ext(p) == ExtFrom(p, Len(p))
\* strings.TrimSuffix
TrimSuffix(t, suffix) ==
    IF Len(suffix) <= Len(t) /\ SubSeq(t, Len(t) - Len(suffix) + 1, Len(t)) = suffix
    THEN SubSeq(t, 1, Len(t) - Len(suffix))
    ELSE t
\* os.Stat finds something at p.
LocalExists(fs, p) == p \in fs
\* fmt.Sprintf("%s (%d)%s", name, counter, ext) joined to dir
Numbered(dir, name, counter, ext) ==
    Join(dir, name \o <<" ", "(">> \o Itoa(counter) \o <<")">> \o ext)
\* The for loop of getUniqueFilePath, from counter on.
RECURSIVE UniqueFrom(_, _, _, _, _)
UniqueFrom(fs, dir, name, ext, counter) ==
    IF ~LocalExists(fs, Numbered(dir, name, counter, ext))
    THEN Numbered(dir, name, counter, ext)
    ELSE UniqueFrom(fs, dir, name, ext, counter + 1)

\* A getUniqueFilePath that stops at the first numbered name, taken or not.
getUniqueFilePathFirstNumber(fs, originalPath) ==
    IF ~LocalExists(fs, originalPath) THEN originalPath
    ELSE Numbered(Dir(originalPath),
                  TrimSuffix(Base(originalPath), Ext(originalPath)), 1,
                  Ext(originalPath))

\* SFTPBrowserModel.getUniqueFilePath
getUniqueFilePath(fs, originalPath) ==
    IF ~LocalExists(fs, originalPath) THEN originalPath
    ELSE UniqueFrom(fs, Dir(originalPath),
                    TrimSuffix(Base(originalPath), Ext(originalPath)),
                    Ext(originalPath), 1)

\* Does D in this browser reach downloadSelectedFile?
Downloads(bb) == HasSelection(bb) /\ ~IndexPanics(bb) /\ ~Selected(bb).isDir

\* sftp.Client.DownloadFile to dest: it creates the local file when it
\* succeeds, and (created) when it fails after os.Create.
DownloadFile(fs, dest, opOk, created) ==
    IF opOk \/ created THEN fs \cup {dest} ELSE fs

\* The key D in the browser: updateBrowsing's case "D" with
\* downloadSelectedFile.  dirOk says whether os.UserHomeDir and os.MkdirAll
\* succeed, opOk whether DownloadFile does.
DownloadKey ==
    /\ pc = "browser"
    /\ b.state = "Browsing"
    /\ \E dirOk \in Outcomes(Downloads(b)) :
       \E opOk \in Outcomes(Downloads(b) /\ dirOk) :
       \E created \in Outcomes(~opOk) :
       \E out \in {BrowserUpdate(b, remote, cwd, "D", opOk, TRUE)} :
       \E dest \in {IF Downloads(b) /\ dirOk
                    THEN getUniqueFilePath(downloads, Join(DownloadsDir, Selected(b).name))
                    ELSE <<>>} :
          /\ b' = out.b
          /\ ops' = IF dirOk THEN out.ops ELSE <<>>
          /\ pc' = IF out.end = "panic" THEN "crashed" ELSE "browser"
          /\ localPath' = dest
          /\ downloads' = IF dest = <<>> THEN downloads
                          ELSE DownloadFile(downloads, dest, opOk, created)
          /\ faults' = faults + Failed(dirOk) + Failed(opOk)
    /\ faults' <= MaxFaults
    /\ Cardinality(downloads') <= MaxLocal
    /\ UNCHANGED <<m, config, disk, keyring, uuids, edits, quitCmd, session>>
    /\ UNCHANGED <<remote, cwd, modalVars, termVars>>

\* The remote home directory of the download runs: d, a, .h and r.t.
DownloadRemote ==
    SeedRemote(0) \o << [path |-> <<"/", "r", ".", "t">>, isDir |-> FALSE] >>
\* What may be in ~/Downloads when the session starts.
SeedDownloads ==
    {Join(DownloadsDir, n) : n \in {<<"r", ".", "t">>,
                                    <<"r", " ", "(", "1", ")", ".", "t">>,
                                    <<"r", " ", "(", "2", ")", ".", "t">>}}
\* The keys of the download runs besides D.
DownloadKeys == {"up", "down", "."}

DownloadInit ==
    /\ pc = "browser"
    /\ m = [NewModel EXCEPT !.state = "ViewSelectionMenu",
                            !.selectedConnection = SeedConnection(1),
                            !.menuSelection = 1]
    /\ disk = [connections |-> SeedConnections(1), credentials |-> <<>>]
    /\ config = disk
    /\ keyring = SeedKeyring
    /\ uuids = 0
    /\ edits = 0
    /\ faults = 0
    /\ quitCmd = "menu"
    /\ session = [conn |-> SeedConnection(1), type |-> 1]
    /\ ops = <<>>
    /\ remote = DownloadRemote
    /\ cwd = RemoteHome
    /\ b = loadCurrentDirectory(NewBrowserModel(cwd), remote, TRUE)
    /\ modal = Nil
    /\ pressed = <<>>
    /\ downloads \in SUBSET SeedDownloads
    /\ localPath = <<>>
    /\ shell = 0
    /\ listeners = {}
    /\ resized = {}

DownloadNext ==
    \/ \E k \in DownloadKeys : BrowserKey(k)
    \/ DownloadKey

SpecDownload == DownloadInit /\ [][DownloadNext]_vars

\* ---------------------------------------------------- the modal on its own
\* Keys delivered to one confirmation modal.
MaxPressed == 3

ModalInit ==
    /\ pc = "tui"
    /\ m = NewModel
    /\ disk = [connections |-> <<>>, credentials |-> <<>>]
    /\ config = disk
    /\ keyring = {}
    /\ uuids = 0
    /\ edits = 0
    /\ faults = 0
    /\ quitCmd = "none"
    /\ session = Nil
    /\ ops = <<>>
    /\ b = Nil
    /\ remote = <<>>
    /\ cwd = <<>>
    /\ modal = NewConfirmationModal(<<"s", "1">>)
    /\ pressed = <<>>
    /\ downloads = {}
    /\ localPath = <<>>
    /\ shell = 0
    /\ listeners = {}
    /\ resized = {}

\* ConfirmationModalModel.Update for a key.  Both owners of a modal,
\* Model.updateConfirmationModal and
\* CredentialsManagerModel.updateConfirmationModal, drop it as soon as it is
\* confirmed or cancelled, so a resolved modal receives no further key.
ModalKey(k) ==
    /\ ~modal.confirmed
    /\ ~modal.cancelled
    /\ Len(pressed) < MaxPressed
    /\ modal' = ConfirmationModalUpdate(modal, k)
    /\ pressed' = Append(pressed, k)
    /\ UNCHANGED <<routerVars, browserVars, localVars, termVars>>

ModalNext == \E k \in Keys : ModalKey(k)

SpecModal == ModalInit /\ [][ModalNext]_vars

\* ------------------------------------------------- the form, with a port typed
\* The longest port text the model draws from PortChars.
MaxPortLen == 2
\* The characters of the port texts: digits, a letter and a sign.
PortChars == {"0", "2", "7", "q", "-"}
RECURSIVE TextsUpTo(_)
TextsUpTo(n) ==
    IF n = 0 THEN {<<>>}
    ELSE TextsUpTo(n - 1)
         \cup {Append(t, c) : t \in {u \in TextsUpTo(n - 1) : Len(u) = n - 1}, c \in PortChars}
\* What the user has typed into the port field: the short texts, and the
\* texts around the largest port.
PortTexts ==
    TextsUpTo(MaxPortLen)
        \cup {<<"6", "5", "5", "3", "5">>, <<"6", "5", "5", "3", "6">>,
              <<"7", "0", "0", "0", "0">>}

\* The router in the connection form (showAddConnectionForm or
\* showEditConnectionForm has run) after the user has typed a label and a host
\* where there was none, and a port; the focus is still on the port field.
FormInit ==
    /\ pc = "tui"
    /\ \E n \in 0..MaxSeed :
          disk = [connections |-> SeedConnections(n), credentials |-> <<>>]
    /\ config = disk
    /\ keyring = SeedKeyring
    /\ \E mode \in {"add", "edit"} : \E port \in PortTexts : \E i \in 1..MaxSeed :
          /\ mode = "edit" => i <= Len(config.connections)
          /\ mode = "add" => i = 1
          /\ \E f \in {NewConnectionForm(mode,
                                         IF mode = "edit" THEN config.connections[i] ELSE Nil,
                                         keyring, TRUE)} :
                m = [NewModel EXCEPT
                        !.state = "ViewConnectionForm",
                        !.selectedIndex = i - 1,
                        !.form = [f EXCEPT
                            !.inputs[FieldLabel + 1] = IF mode = "add" THEN <<"s">> ELSE @,
                            !.inputs[FieldHost + 1] = IF mode = "add" THEN <<"h">> ELSE @,
                            !.inputs[FieldPort + 1] = port,
                            !.focusIndex = FieldPort]]
    /\ uuids = 0
    /\ edits = 0
    /\ faults = 0
    /\ quitCmd = "none"
    /\ session = Nil
    /\ ops = <<>>
    /\ b = Nil
    /\ remote = <<>>
    /\ cwd = <<>>
    /\ modal = Nil
    /\ pressed = <<>>
    /\ downloads = {}
    /\ localPath = <<>>
    /\ shell = 0
    /\ listeners = {}
    /\ resized = {}

FormNext == \E k \in Keys : ConnectionFormKey(k)

SpecForm == FormInit /\ [][FormNext]_vars

\* ------------------------------------------- the interactive terminal session
\* Interactive sessions that get as far as starting their resize listener.
MaxSessions == 2

\* Client.StartInteractiveSession up to session.Shell(), in an SSH session main
\* has started. sessOk: NewSession, RequestPty and MakeRaw succeed (the client
\* connected); then `go c.handleResize(session)` starts the listener of this
\* session, and shellOk is the answer of session.Shell(). When it returns
\* early the deferred session.Close() has closed the session.
TerminalStart ==
    /\ pc = "session"
    /\ session # Nil
    /\ session.type = 0
    /\ \E sessOk \in BOOLEAN :
       \E shellOk \in Outcomes(sessOk) :
       \E id \in {Cardinality(listeners) + 1} :
          /\ listeners' = IF sessOk THEN listeners \cup {id} ELSE listeners
          /\ shell' = IF sessOk /\ shellOk THEN id ELSE 0
          /\ pc' = IF sessOk /\ shellOk THEN "shell" ELSE "ended"
          /\ faults' = faults + Failed(sessOk) + Failed(shellOk)
    /\ faults' <= MaxFaults
    /\ Cardinality(listeners') <= MaxSessions
    /\ ops' = <<>>
    /\ UNCHANGED <<m, config, disk, keyring, uuids, edits, quitCmd, session, resized>>
    /\ UNCHANGED <<browserVars, modalVars, localVars>>

\* session.Wait() returns: the remote shell has ended, StartInteractiveSession
\* returns and its deferred session.Close() runs. Nothing stops handleResize.
TerminalEnd ==
    /\ pc = "shell"
    /\ pc' = "ended"
    /\ shell' = 0
    /\ ops' = <<>>
    /\ UNCHANGED <<m, config, disk, keyring, uuids, edits, faults, quitCmd, session>>
    /\ UNCHANGED <<listeners, resized, browserVars, modalVars, localVars>>

\* A SIGWINCH is delivered to the process: every running handleResize reads
\* the terminal size and, when that succeeds, calls WindowChange on the
\* session it was started with, ignoring the error of a closed session.
Sigwinch ==
    /\ pc \in {"tui", "quit", "session", "shell", "ended"}
    /\ \E sizeOk \in BOOLEAN :
          /\ resized' = IF sizeOk THEN listeners ELSE {}
          /\ faults' = faults + Failed(sizeOk)
    /\ faults' <= MaxFaults
    /\ UNCHANGED <<pc, m, config, disk, keyring, uuids, edits, quitCmd, session, ops>>
    /\ UNCHANGED <<shell, listeners, browserVars, modalVars, localVars>>

\* main has started an SSH session on the first seed connection.
TerminalInit ==
    /\ pc = "session"
    /\ m = [NewModel EXCEPT !.state = "ViewSelectionMenu",
                            !.selectedConnection = SeedConnection(1),
                            !.menuSelection = 0]
    /\ disk = [connections |-> SeedConnections(MaxSeed), credentials |-> <<>>]
    /\ config = disk
    /\ keyring = SeedKeyring
    /\ uuids = 0
    /\ edits = 0
    /\ faults = 0
    /\ quitCmd = "menu"
    /\ session = [conn |-> SeedConnection(1), type |-> 0]
    /\ ops = <<>>
    /\ b = Nil
    /\ remote = <<>>
    /\ cwd = <<>>
    /\ modal = Nil
    /\ pressed = <<>>
    /\ downloads = {}
    /\ localPath = <<>>
    /\ shell = 0
    /\ listeners = {}
    /\ resized = {}

\* The keys that lead from the connection list to another session.
TerminalKeys == {"enter", "up", "down", "esc"}

TerminalNext ==
    \/ TerminalStart
    \/ TerminalEnd
    \/ Sigwinch
    \/ SessionEnd
    \/ StartSession
    \/ \E k \in TerminalKeys : ConnectionsListKey(k)
    \/ \E k \in TerminalKeys : SelectionMenuKey(k)

SpecTerminal == TerminalInit /\ [][TerminalNext]_vars

\* ------------------------------------------------------------------ claims
Ids(records) == {records[i].id : i \in 1..Len(records)}
RouterModalShown == m.showingConfirmation /\ m.confirmationModal # Nil

\* C1: a connection record that is in the router's list and in the persisted
\* store leaves either of them only in a step taken while the delete
\* confirmation modal is shown with Yes selected; every other step, whatever
\* the key, leaves it in both.
C1_RemovedOnlyWhenConfirmed ==
    [][\A i \in Ids(config.connections) \cap Ids(disk.connections) :
          (i \notin Ids(config'.connections) \/ i \notin Ids(disk'.connections))
          => /\ pc = "tui"
             /\ RouterModalShown
             /\ m.confirmationModal.selected = 0
             /\ m.confirmationCallback # Nil]_vars

\* A confirmed delete that succeeded: the first seed is gone from the store.
C1_Witness ==
    /\ pc = "tui"
    /\ m.state = "ViewConnections"
    /\ Len(ops) = 2
    /\ ops[1].op = "keyring.Delete"
    /\ ops[2] = Op("config.Save", TRUE)
    /\ 1 \notin Ids(disk.connections)
    /\ 1 \notin Ids(config.connections)

DeleteInvoked(log) == \E i \in 1..Len(log) : log[i].op = "sftp.Delete"

\* C2: a step of the browser invokes the client's Delete, or leaves fewer
\* remote entries, only when it starts in DeleteConfirm; and in DeleteConfirm
\* every key other than y and Y invokes no remote operation and leaves the
\* remote file system as it is.
C2_DeleteOnlyOnYes ==
    [][/\ (DeleteInvoked(ops') \/ Len(remote') < Len(remote))
             => pc = "browser" /\ b.state = "DeleteConfirm"
       /\ (pc = "browser" /\ b.state = "DeleteConfirm")
             => \A k \in BrowserKeys \ {"y", "Y"} : \A o \in BOOLEAN \X BOOLEAN :
                   \A out \in {BrowserUpdate(b, remote, cwd, k, o[1], o[2])} :
                      /\ out.ops = <<>>
                      /\ out.remote = remote]_vars

\* The file a was deleted from the home directory by d, then y.
C2_Witness ==
    /\ pc = "browser"
    /\ b.state = "Browsing"
    /\ Len(ops) = 2
    /\ ops[1] = Op("sftp.Delete", TRUE)
    /\ b.successMsg = "Deleted"
    /\ KindAt(remote, <<"/", "a">>) = "none"

\* C3: a new modal has No selected; Enter as the first key cancels it and
\* does not confirm it; a confirmed modal received Enter last and a left/h
\* key before it; no modal is both confirmed and cancelled.
C3_NoIsTheDefault ==
    modal # Nil =>
        /\ pressed = <<>> => modal.selected = 1 /\ ~modal.confirmed /\ ~modal.cancelled
        /\ (pressed # <<>> /\ pressed[1] = "enter") => modal.cancelled /\ ~modal.confirmed
        /\ modal.confirmed =>
              /\ pressed[Len(pressed)] = "enter"
              /\ \E i \in 1..(Len(pressed) - 1) : pressed[i] \in {"left", "h"}
        /\ ~(modal.confirmed /\ modal.cancelled)

\* A modal confirmed by h, then Enter.
C3_Witness ==
    /\ modal # Nil
    /\ modal.confirmed
    /\ pressed = <<"h", "enter">>

\* C4: the browser's selectedIndex is 0 for an empty listing and an index of
\* the listing otherwise.
C4_BrowserSelectedIndexInRange ==
    pc = "browser" =>
        IF Len(b.files) = 0 THEN b.selectedIndex = 0
        ELSE 0 <= b.selectedIndex /\ b.selectedIndex < Len(b.files)

\* C5: the router's selectedIndex is 0 for an empty connection list and an
\* index of the list otherwise.
C5_SelectedIndexInRange ==
    IF Len(config.connections) = 0 THEN m.selectedIndex = 0
    ELSE 0 <= m.selectedIndex /\ m.selectedIndex < Len(config.connections)

\* C6: main starts a session only when the router loop ended by confirming
\* the mode-selection menu.
C6_SessionOnlyFromMenu == pc = "session" => quitCmd = "menu"

\* C7: in the connection form and in the credentials manager no step ends the
\* router loop, and q and ctrl+c are dispatched to the view; in the connection
\* list q and ctrl+c end it.
C7_QuitAbsorbedBySubComponent ==
    [][pc = "tui" /\ ~RouterModalShown =>
          /\ m.state \in {"ViewConnectionForm", "ViewCredentials"} =>
                /\ pc' # "quit"
                /\ \A k \in {"q", "ctrl+c"} : Dispatch(m, k) = m.state
          /\ m.state = "ViewConnections" =>
                \A k \in {"q", "ctrl+c"} : Dispatch(m, k) = "quit"]_vars

\* The form took a q as text.
C7_Witness ==
    /\ pc = "tui"
    /\ m.state = "ViewConnectionForm"
    /\ m.form # Nil
    /\ m.form.inputs[FieldLabel + 1] = <<"q">>

\* C8: a form submission with a non-empty password writes the keyring first;
\* when that write fails nothing else is done: the persisted store and the
\* list are as before and the router's error is set.
C8_KeyringBeforeStore ==
    [][(/\ pc = "tui"
        /\ m.state = "ViewConnectionForm"
        /\ m.form # Nil
        /\ GetPassword(m.form) # <<>>
        /\ ops' # <<>>)
       => /\ ops'[1].op = "keyring.Set"
          /\ \A i \in 2..Len(ops') : ops'[i].op = "config.Save"
          /\ ~ops'[1].ok =>
                /\ Len(ops') = 1
                /\ disk' = disk
                /\ config' = config
                /\ keyring' = keyring
                /\ m'.err # NoErr]_vars

\* A submission whose keyring write failed.
C8_Witness ==
    /\ pc = "tui"
    /\ m.state = "ViewConnectionForm"
    /\ m.form # Nil
    /\ GetPassword(m.form) # <<>>
    /\ ops = <<Op("keyring.Set", FALSE)>>
    /\ m.err = "failed to save password"
    /\ disk = config

\* C9: when Config.Save fails in a confirmed connection delete, the router's
\* connection list, its selection and the persisted store are as before, and
\* the router's error is set.
C9_FailedDeleteRolledBack ==
    [][(/\ pc = "tui"
        /\ RouterModalShown
        /\ Len(ops') = 2
        /\ ops'[1].op = "keyring.Delete"
        /\ ops'[2] = Op("config.Save", FALSE))
       => /\ config'.connections = config.connections
          /\ disk'.connections = disk.connections
          /\ m'.selectedIndex = m.selectedIndex
          /\ m'.err # NoErr]_vars

\* What the form must reject: no label, no host, or a port that is given and
\* is not an integer in 1..MaxPort.
Rejected(f) ==
    \/ f.inputs[FieldLabel + 1] = <<>>
    \/ f.inputs[FieldHost + 1] = <<>>
    \/ /\ f.inputs[FieldPort + 1] # <<>>
       /\ ~(/\ AtoiOk(f.inputs[FieldPort + 1])
            /\ Atoi(f.inputs[FieldPort + 1]) >= 1
            /\ Atoi(f.inputs[FieldPort + 1]) <= MaxPort)

RECURSIVE StripZeros(_)
StripZeros(t) == IF Len(t) > 1 /\ t[1] = "0" THEN StripZeros(Tail(t)) ELSE t
\* The text is a decimal numeral of the integer n.
Denotes(t, n) ==
    /\ t # <<>>
    /\ StripZeros(IF t[1] = "+" THEN Tail(t) ELSE t) = Itoa(n)

\* C11: when a form submission reaches the persisted store, the record stored
\* under the form's identity has port 22 if the port field is empty, and
\* otherwise a port in 1..65535 of which the port field is a decimal numeral.
C11_PortRoundTrip ==
    [][(/\ pc = "tui"
        /\ m.state = "ViewConnectionForm"
        /\ m.form # Nil
        /\ ops' # <<>>
        /\ ops'[Len(ops')] = Op("config.Save", TRUE))
       => \E i \in 1..Len(disk'.connections) :
             /\ disk'.connections[i].id =
                   (IF m.form.connID = 0 THEN FreshId(uuids) ELSE m.form.connID)
             /\ IF m.form.inputs[FieldPort + 1] = <<>>
                THEN disk'.connections[i].port = 22
                ELSE /\ disk'.connections[i].port \in 1..65535
                     /\ Denotes(m.form.inputs[FieldPort + 1],
                                disk'.connections[i].port)]_vars

\* A submission whose port field was a numeral of 7 has stored port 7.
C11_Witness ==
    /\ pc = "tui"
    /\ m.state = "ViewConnections"
    /\ ops = <<Op("config.Save", TRUE)>>
    /\ \E i \in 1..Len(disk.connections) : disk.connections[i].port = 7

\* C12: while a delete action is pending behind the modal, a key that does
\* not confirm the modal calls no store and leaves both stores and the
\* connection list as they are; a key that cancels it also drops the modal and
\* the action; and a step that calls a store, changes one or runs into the
\* action's panic starts from a modal that Enter confirms.
C12_ActionRunsOnlyOnConfirm ==
    [][(pc = "tui" /\ RouterModalShown /\ m.confirmationCallback # Nil)
       => /\ \A k \in Keys : \A delOk, saveOk \in BOOLEAN :
                \A md \in {ConfirmationModalUpdate(m.confirmationModal, k)} :
                \A out \in {IF md.confirmed THEN Outcome(m, config, disk, keyring, <<>>)
                            ELSE updateConfirmationModal(m, k, delOk, saveOk)} :
                   /\ ~md.confirmed =>
                         /\ out.ops = <<>>
                         /\ out.config = config
                         /\ out.disk = disk
                         /\ out.keyring = keyring
                   /\ md.cancelled =>
                         /\ ~out.m.showingConfirmation
                         /\ out.m.confirmationModal = Nil
                         /\ out.m.confirmationCallback = Nil
          /\ (ops' # <<>> \/ config' # config \/ disk' # disk \/ keyring' # keyring
                 \/ pc' = "crashed")
                => ConfirmationModalUpdate(m.confirmationModal, "enter").confirmed]_vars

\* The modal that came back after a confirmed delete of the first of two
\* connections was cancelled: the second connection is still in both stores.
C12_Witness ==
    /\ pc = "tui"
    /\ ~m.showingConfirmation
    /\ m.confirmationModal = Nil
    /\ m.confirmationCallback = Nil
    /\ ops = <<>>
    /\ Ids(disk.connections) = {2}
    /\ config = disk

\* C13: a key event that concludes the modal, by running the delete action
\* or by taking the modal away, returns a router state in which no modal is
\* showing and no deferred action is pending.
C13_ModalDiscardedWhenConcluded ==
    [][(/\ pc = "tui" /\ RouterModalShown
        /\ pc' = "tui"
        /\ (ops' # <<>> \/ ~m'.showingConfirmation))
       => /\ ~m'.showingConfirmation
          /\ m'.confirmationModal = Nil
          /\ m'.confirmationCallback = Nil]_vars

\* The calls a confirmed delete of connection id makes, and the error it
\* leaves: the keyring delete, then Config.Save, whatever the keyring said;
\* an error exactly when Save failed; the record off the disk when it did not.
DeleteCalls(log, mm, dsk, id) ==
    /\ Len(log) = 2
    /\ log[1].op = "keyring.Delete"
    /\ log[2].op = "config.Save"
    /\ (mm.err # NoErr) <=> ~log[2].ok
    /\ log[2].ok => id \notin Ids(dsk.connections)
    /\ ~log[2].ok => dsk = disk

\* C14: Enter on a modal with Yes selected and the delete action pending
\* attempts the keyring delete first and Config.Save after it, whether or not
\* the keyring delete succeeded, and leaves an error exactly when Save
\* failed; this holds for every pair of outcomes of the two calls and for the
\* step the program takes.
C14_KeyringFirstFailureIgnored ==
    [][(/\ pc = "tui" /\ RouterModalShown
        /\ m.confirmationCallback # Nil
        /\ m.confirmationModal.selected = 0
        /\ ~CallbackPanics(m.confirmationCallback.captured))
       => \A id \in {config.connections[m.confirmationCallback.captured.selectedIndex + 1].id} :
             /\ \A delOk, saveOk \in BOOLEAN :
                   \A out \in {updateConfirmationModal(m, "enter", delOk, saveOk)} :
                      /\ DeleteCalls(out.ops, out.m, out.disk, id)
                      /\ out.ops[2].ok = saveOk
                      /\ out.ops[1].ok = (delOk /\ KeyringHas(keyring, "conn", id))
             /\ ops' # <<>> => DeleteCalls(ops', m', disk', id)]_vars

\* A confirmed delete whose keyring delete failed: the password is still in
\* the keyring, the record is off the disk and no error is shown.
C14_Witness ==
    /\ pc = "tui"
    /\ ops = <<Op("keyring.Delete", FALSE), Op("config.Save", TRUE)>>
    /\ m.err = NoErr
    /\ \E id \in 1..MaxSeed :
          /\ KeyringHas(keyring, "conn", id)
          /\ id \notin Ids(disk.connections)

InWindow(bb) ==
    /\ bb.scrollOffset <= bb.selectedIndex
    /\ bb.selectedIndex < bb.scrollOffset + getVisibleFileCount(bb)

\* The keys of updateBrowsing that move the selection.
MoveKeys == {"up", "k", "down", "j", "ctrl+u", "ctrl+d", "G"}

\* C16: in Browsing, whichever selection-move key is pressed next, the
\* browser it leaves has scrollOffset <= selectedIndex < scrollOffset +
\* visibleCount.
C16_InWindowAfterMove ==
    (pc = "browser" /\ b.state = "Browsing")
       => \A k \in MoveKeys : InWindow(BrowserUpdate(b, remote, cwd, k, TRUE, TRUE).b)

\* C17: in every reachable state of the browser the selected row is inside
\* the scroll window, scrollOffset <= selectedIndex < scrollOffset +
\* visibleCount.
C17_InWindowAlways == pc = "browser" => InWindow(b)

\* C18: in DeleteConfirm every key other than y and Y takes the browser back
\* to Browsing, calls no remote operation and leaves the remote files as
\* they are.
C18_OtherKeysCancelDelete ==
    (pc = "browser" /\ b.state = "DeleteConfirm")
       => \A k \in BrowserKeys \ {"y", "Y"} :
             \A out \in {BrowserUpdate(b, remote, cwd, k, TRUE, TRUE)} :
                /\ out.b.state = "Browsing"
                /\ out.ops = <<>>
                /\ out.remote = remote

\* The entries of a listing whose names do not start with a dot.
Unhidden(fs) == SelectSeq(fs, LAMBDA f : f.name[1] # ".")
\* The entries of the remote directory p.
DirEntries(rem, p) == FileInfos(ChildrenAt(rem, Resolve(p)))
\* The browser lists its directory's entries, all of them when the toggle is
\* on, those without a leading dot when it is off.
ToggledListing(bb, rem) ==
    bb.files = IF bb.showHidden THEN DirEntries(rem, bb.currentPath)
               ELSE Unhidden(DirEntries(rem, bb.currentPath))

\* C19: in Browsing, with a server that answers, '.' flips showHidden and
\* leaves a listing that is exactly the current directory's entries, without
\* the dot-prefixed ones when the toggle is off.
C19_ToggleHiddenReloads ==
    (pc = "browser" /\ b.state = "Browsing")
       => \A out \in {BrowserUpdate(b, remote, cwd, ".", TRUE, TRUE)} :
             /\ out.b.showHidden = ~b.showHidden
             /\ ToggledListing(out.b, out.remote)

\* C20: when a remote operation invoked by a key event of the browser has
\* failed, the browser that event leaves holds an error message, and the
\* program is still in the browser.
C20_FailureHeldAfterEvent ==
    [][(/\ pc = "browser"
        /\ \E i \in 1..Len(ops') : ~ops'[i].ok)
       => /\ pc' = "browser"
          /\ b'.err # NoErr]_vars

\* The name splits after position cut into a base and an extension: the
\* extension starts at the name's last dot, or is empty when it has none.
SplitsAt(name, cut) ==
    IF cut = Len(name) THEN \A i \in 1..Len(name) : name[i] # "."
    ELSE /\ name[cut + 1] = "."
         /\ \A i \in (cut + 2)..Len(name) : name[i] # "."
\* "base (k).ext" in ~/Downloads
Suffixed(name, cut, k) ==
    DownloadsDir \o <<"/">> \o SubSeq(name, 1, cut) \o <<" ", "(">> \o Itoa(k)
        \o <<")">> \o SubSeq(name, cut + 1, Len(name))
ReportTxt(suffix) == DownloadsDir \o <<"/", "r">> \o suffix \o <<".", "t">>

\* C21: the destination a download is given does not exist before the
\* download and no existing path is lost; it is the file's own name in
\* ~/Downloads when that is free, and otherwise "base (k).ext" for the least
\* k >= 1 that is free; with only r.t there it is r (1).t, with r.t and
\* r (1).t there it is r (2).t.
C21_DownloadPathUnused ==
    [][(pc = "browser" /\ ops' # <<>> /\ ops'[1].op = "sftp.DownloadFile")
       => \A name \in {Selected(b).name} :
          \A orig \in {DownloadsDir \o <<"/">> \o name} :
             /\ localPath' \notin downloads
             /\ downloads \subseteq downloads'
             /\ orig \notin downloads => localPath' = orig
             /\ orig \in downloads =>
                   \E cut \in 0..Len(name) : \E k \in 1..(Cardinality(downloads) + 1) :
                      /\ SplitsAt(name, cut)
                      /\ localPath' = Suffixed(name, cut, k)
                      /\ \A j \in 1..(k - 1) : Suffixed(name, cut, j) \in downloads
             /\ (name = <<"r", ".", "t">> /\ downloads = {ReportTxt(<<>>)})
                   => localPath' = ReportTxt(<<" ", "(", "1", ")">>)
             /\ (/\ name = <<"r", ".", "t">>
                 /\ downloads = {ReportTxt(<<>>), ReportTxt(<<" ", "(", "1", ")">>)})
                   => localPath' = ReportTxt(<<" ", "(", "2", ")">>)]_vars

\* r.t has been downloaded as r (2).t, next to r.t and r (1).t.
C21_Witness ==
    /\ pc = "browser"
    /\ ops = <<Op("sftp.DownloadFile", TRUE)>>
    /\ localPath = ReportTxt(<<" ", "(", "2", ")">>)
    /\ downloads = {ReportTxt(<<>>), ReportTxt(<<" ", "(", "1", ")">>),
                    ReportTxt(<<" ", "(", "2", ")">>)}

\* A handler's outcome that wrote to neither store and called neither.
NoStoreWrite(out) == out.ops = <<>> /\ out.disk = disk /\ out.keyring = keyring

\* C22: whatever state an open form, modal, menu or browser input mode is
\* in, Esc closes it, hands control back to the view around it, and calls
\* neither the keyring nor Config.Save.
C22_EscCancelsEverywhere ==
    [][/\ (pc = "tui" /\ Dispatch(m, "esc") = "modal") =>
             \A out \in {updateConfirmationModal(m, "esc", TRUE, TRUE)} :
                ~out.m.showingConfirmation /\ NoStoreWrite(out)
       /\ (pc = "tui" /\ Dispatch(m, "esc") = "ViewConnectionForm" /\ m.form # Nil) =>
             \A out \in {updateConnectionForm(m, "esc", FreshId(uuids), TRUE, TRUE, TRUE)} :
                /\ out.m.form = Nil
                /\ out.m.state = "ViewConnections"
                /\ NoStoreWrite(out)
       /\ (/\ pc = "tui" /\ Dispatch(m, "esc") = "ViewCredentials"
           /\ m.credentialsManager # Nil
           /\ \/ m.credentialsManager.showingConfirmation
              \/ m.credentialsManager.showingForm) =>
             \A out \in {CredentialsManagerUpdate(m.credentialsManager, "esc", FreshId(uuids),
                                                  TRUE, TRUE, TRUE, TRUE, TRUE)} :
                /\ ~out.cm.showingConfirmation
                /\ ~out.cm.showingForm
                /\ ~out.cm.done
                /\ NoStoreWrite(out)
       /\ (/\ pc = "tui" /\ Dispatch(m, "esc") = "ViewSelectionMenu"
           /\ pc' = "tui" /\ m'.state # "ViewSelectionMenu") =>
             /\ m'.state = "ViewConnections"
             /\ ops' = <<>> /\ disk' = disk /\ keyring' = keyring
       /\ (pc = "browser" /\ b.state # "Browsing") =>
             \A out \in {BrowserUpdate(b, remote, cwd, "esc", TRUE, TRUE)} :
                out.b.state = "Browsing" /\ out.ops = <<>>]_vars

\* The errors Model.handleFormSubmit leaves on the router.
SubmitErrors ==
    {"failed to save password", "failed to save connection", "failed to reload config"}

\* C23: while a form is open with the error of a failed or rejected
\* submission, every key other than Enter on Submit calls neither the keyring
\* nor Config.Save.
C23_NoWriteUntilResubmit ==
    pc = "tui" =>
       /\ (m.state = "ViewConnectionForm" /\ m.form # Nil /\ m.err \in SubmitErrors) =>
             \A k \in Keys :
                (/\ Dispatch(m, k) = "ViewConnectionForm"
                 /\ ~(k = "enter" /\ m.form.focusIndex = FieldSubmit)) =>
                   updateConnectionForm(m, k, FreshId(uuids), TRUE, TRUE, TRUE).ops = <<>>
       /\ (/\ m.state = "ViewCredentials" /\ m.credentialsManager # Nil
           /\ CmInForm(m.credentialsManager)
           /\ m.credentialsManager.err = "password is required for new credential") =>
             \A k \in Keys :
                (/\ Dispatch(m, k) = "ViewCredentials"
                 /\ ~(k = "enter" /\ m.credentialsManager.form.focusIndex = CredFieldSubmit)) =>
                   CredentialsManagerUpdate(m.credentialsManager, k, FreshId(uuids),
                                            TRUE, TRUE, TRUE, TRUE, TRUE).ops = <<>>

\* The calls that write to the keyring or to the persisted store.
StoreWrites == {"keyring.Set", "keyring.Delete", "config.Save"}
\* A form is open with the focus on Submit.
SubmitPending ==
    \/ /\ ~RouterModalShown
       /\ m.state = "ViewConnectionForm" /\ m.form # Nil
       /\ m.form.focusIndex = FieldSubmit
    \/ /\ ~RouterModalShown
       /\ m.state = "ViewCredentials" /\ m.credentialsManager # Nil
       /\ CmInForm(m.credentialsManager)
       /\ m.credentialsManager.form.focusIndex = CredFieldSubmit
\* A delete confirmation is open with Yes selected.
ConfirmPending ==
    \/ RouterModalShown /\ m.confirmationModal.selected = 0
    \/ /\ ~RouterModalShown
       /\ m.state = "ViewCredentials" /\ m.credentialsManager # Nil
       /\ m.credentialsManager.showingConfirmation
       /\ m.credentialsManager.confirmationModal # Nil
       /\ m.credentialsManager.confirmationModal.selected = 0

\* C24: a step that changes the persisted store or the keyring, or calls a
\* write of either, is taken by the router from a form with the focus on
\* Submit or from a delete confirmation with Yes selected.
C24_WritesOnlyOnSubmitOrConfirm ==
    [][(\/ disk' # disk
        \/ keyring' # keyring
        \/ \E i \in 1..Len(ops') : ops'[i].op \in StoreWrites)
       => /\ pc = "tui"
          /\ SubmitPending \/ ConfirmPending]_vars

\* Every connection of the configuration that authenticates with a shared
\* credential names a credential of that configuration.
ReferencesResolve(cfg) ==
    \A i \in 1..Len(cfg.connections) :
       cfg.connections[i].authType = "credential" =>
          \E j \in 1..Len(cfg.credentials) :
             cfg.credentials[j].id = cfg.connections[i].credentialID

\* C25: in every reachable state, in the router's configuration and in the
\* persisted store, every connection whose auth mode is shared-credential
\* references a credential that is in the credential list.
C25_CredentialReferencesResolve ==
    ReferencesResolve(config) /\ ReferencesResolve(disk)

\* The connection form is open on a connection that authenticates with a
\* shared credential.
EditsSharedConnection ==
    /\ pc = "tui"
    /\ m.form # Nil
    /\ m.form.mode = "edit"
    /\ \E i \in 1..Len(config.connections) :
          /\ config.connections[i].id = m.form.connID
          /\ config.connections[i].authType = "credential"

\* C26: while the connection form is open on a shared-credential connection
\* the focus is never on the Username or the Password field.
C26_HiddenFieldsNeverFocused ==
    EditsSharedConnection => m.form.focusIndex \notin {FieldUsername, FieldPassword}

RECURSIVE NextFieldTimes(_, _)
NextFieldTimes(f, n) == IF n = 0 THEN f ELSE NextFieldTimes(nextField(f), n - 1)
RECURSIVE PrevFieldTimes(_, _)
PrevFieldTimes(f, n) == IF n = 0 THEN f ELSE PrevFieldTimes(prevField(f), n - 1)
RECURSIVE CredNextFieldTimes(_, _)
CredNextFieldTimes(f, n) ==
    IF n = 0 THEN f ELSE CredNextFieldTimes(credNextField(f), n - 1)
RECURSIVE CredPrevFieldTimes(_, _)
CredPrevFieldTimes(f, n) ==
    IF n = 0 THEN f ELSE CredPrevFieldTimes(credPrevField(f), n - 1)

\* The focus laws of the connection form at f: in range, one step either way
\* stays in range and wraps at the ends, prev undoes next and next undoes prev,
\* and as many steps as there are positions come back to the start.
FocusLaws(f) ==
    /\ f.focusIndex \in FieldLabel..FieldCancel
    /\ nextField(f).focusIndex \in FieldLabel..FieldCancel
    /\ prevField(f).focusIndex \in FieldLabel..FieldCancel
    /\ nextField(f).focusIndex =
          (IF f.focusIndex = FieldCancel THEN FieldLabel ELSE f.focusIndex + 1)
    /\ prevField(f).focusIndex =
          (IF f.focusIndex = FieldLabel THEN FieldCancel ELSE f.focusIndex - 1)
    /\ prevField(nextField(f)) = f
    /\ nextField(prevField(f)) = f
    /\ NextFieldTimes(f, FieldCancel + 1) = f
    /\ PrevFieldTimes(f, FieldCancel + 1) = f
    /\ \A n \in 1..FieldCancel : NextFieldTimes(f, n) # f /\ PrevFieldTimes(f, n) # f

\* The same laws of the credential form at f.
CredFocusLaws(f) ==
    /\ f.focusIndex \in CredFieldLabel..CredFieldCancel
    /\ credNextField(f).focusIndex \in CredFieldLabel..CredFieldCancel
    /\ credPrevField(f).focusIndex \in CredFieldLabel..CredFieldCancel
    /\ credNextField(f).focusIndex =
          (IF f.focusIndex = CredFieldCancel THEN CredFieldLabel ELSE f.focusIndex + 1)
    /\ credPrevField(f).focusIndex =
          (IF f.focusIndex = CredFieldLabel THEN CredFieldCancel ELSE f.focusIndex - 1)
    /\ credPrevField(credNextField(f)) = f
    /\ credNextField(credPrevField(f)) = f
    /\ CredNextFieldTimes(f, CredFieldCancel + 1) = f
    /\ CredPrevFieldTimes(f, CredFieldCancel + 1) = f
    /\ \A n \in 1..CredFieldCancel :
          CredNextFieldTimes(f, n) # f /\ CredPrevFieldTimes(f, n) # f

\* C27: in every connection form and credential form the program reaches, the
\* focus is one index within the ordered positions (the fields, Submit,
\* Cancel); next and prev wrap at both ends, each undoes the other, and a full
\* round of next or of prev returns the focus to where it started.
C27_FocusIsCyclic ==
    /\ (pc = "tui" /\ m.form # Nil) => FocusLaws(m.form)
    /\ (pc = "tui" /\ m.credentialsManager # Nil /\ m.credentialsManager.form # Nil)
          => CredFocusLaws(m.credentialsManager.form)

\* The connection form with the focus on Cancel, the last position, where next
\* wraps.
C27_Witness ==
    /\ pc = "tui"
    /\ m.state = "ViewConnectionForm"
    /\ m.form # Nil
    /\ m.form.focusIndex = FieldCancel

\* The credential form with the focus on Cancel.
C27_WitnessCred ==
    /\ pc = "tui"
    /\ m.credentialsManager # Nil
    /\ m.credentialsManager.form # Nil
    /\ m.credentialsManager.form.focusIndex = CredFieldCancel

BrowserStates == {"Browsing"} \cup InputStates \cup {"DeleteConfirm"}
\* The keys that submit and that cancel in browser state st.
SubmitKeys(st) == IF st = "DeleteConfirm" THEN {"y", "Y"} ELSE {"enter"}
CancelKeys == {"esc"}

\* C28: a new browser is Browsing; the state is always one of the six; a step
\* that changes the state starts or ends in Browsing, so the five other states
\* are entered only from Browsing and left only for Browsing; and in each of
\* the five, the submit key (Enter, y or Y in DeleteConfirm) and Esc lead to
\* Browsing whatever the session answers.
C28_BrowserStateMachine ==
    [][/\ NewBrowserModel(cwd).state = "Browsing"
       /\ b.state \in BrowserStates
       /\ b'.state \in BrowserStates
       /\ b'.state # b.state => (b.state = "Browsing" \/ b'.state = "Browsing")
       /\ (pc = "browser" /\ b.state # "Browsing") =>
             \A k \in SubmitKeys(b.state) \cup CancelKeys : \A opOk, listOk \in BOOLEAN :
                BrowserUpdate(b, remote, cwd, k, opOk, listOk).b.state = "Browsing"]_vars

\* A submitted rename has come back to Browsing.
C28_Witness ==
    /\ pc = "browser"
    /\ b.state = "Browsing"
    /\ ops # <<>>
    /\ ops[1].op = "sftp.Rename"

\* Browser bb2 shows what bb1 showed: the same path, listing, selection and
\* scroll offset.
SameView(bb1, bb2) ==
    /\ bb2.currentPath = bb1.currentPath
    /\ bb2.files = bb1.files
    /\ bb2.selectedIndex = bb1.selectedIndex
    /\ bb2.scrollOffset = bb1.scrollOffset

\* C29: in GoToPath, CreateFile, CreateDir and Rename, Esc ends in Browsing,
\* invokes no operation of the remote session, leaves the remote files and the
\* working directory alone and leaves the path, the listing, the selection and
\* the scroll offset as they were; and every step that leaves one of these
\* states without a remote operation leaves them so.
C29_EscIsFrame ==
    [][(pc = "browser" /\ b.state \in InputStates) =>
          /\ \A opOk, listOk \in BOOLEAN :
                \A out \in {BrowserUpdate(b, remote, cwd, "esc", opOk, listOk)} :
                   /\ out.end = "none"
                   /\ out.b.state = "Browsing"
                   /\ out.ops = <<>>
                   /\ out.remote = remote
                   /\ out.cwd = cwd
                   /\ SameView(b, out.b)
          /\ (pc' = "browser" /\ b'.state = "Browsing" /\ ops' = <<>>) =>
                /\ remote' = remote
                /\ cwd' = cwd
                /\ SameView(b, b')]_vars

\* Go-to-path is open on a scrolled listing with a path typed that is not the
\* current one: the state in which Esc has something to discard.
C29_Witness ==
    /\ pc = "browser"
    /\ b.state = "GoToPath"
    /\ b.pathInput # <<>>
    /\ b.pathInput # b.currentPath
    /\ b.selectedIndex > 0
    /\ b.scrollOffset > 0

\* The text of the input that browser state bb.state edits.
InputValue(bb) == IF bb.state = "GoToPath" THEN bb.pathInput ELSE bb.nameInput
\* The session operation that Enter applies in each input state.
InputOp(st) ==
    CASE st = "GoToPath" -> "sftp.ChangeDir"
      [] st = "CreateFile" -> "sftp.CreateFile"
      [] st = "CreateDir" -> "sftp.CreateDirectory"
      [] st = "Rename" -> "sftp.Rename"

\* C30: in GoToPath, CreateFile, CreateDir and Rename, Enter on a non-empty
\* input invokes the state's session operation and ends in Browsing; when the
\* operation succeeds a status message is set and the directory is listed
\* again, when it fails an error message is set.
C30_EnterAppliesAndReports ==
    (pc = "browser" /\ b.state \in InputStates /\ InputValue(b) # <<>>)
       => \A opOk, listOk \in BOOLEAN :
             \A out \in {BrowserUpdate(b, remote, cwd, "enter", opOk, listOk)} :
                /\ out.ops # <<>>
                /\ out.ops[1].op = InputOp(b.state)
                /\ out.b.state = "Browsing"
                /\ out.ops[1].ok =>
                      /\ out.b.successMsg # ""
                      /\ Len(out.ops) = 2
                      /\ out.ops[2].op = "sftp.ListDir"
                /\ ~out.ops[1].ok => out.b.err # NoErr

\* The operations of an edit round trip on path p are a download of p, then
\* the editor if the download succeeded, then an upload to p if the editor
\* succeeded too.
RoundTrip(log, p) ==
    /\ Len(log) \in 1..3
    /\ log[1].op = "sftp.DownloadFile" /\ log[1].path = p
    /\ Len(log) >= 2 <=> log[1].ok
    /\ Len(log) >= 2 => log[2].op = "exec.Run"
    /\ Len(log) = 3 <=> (log[1].ok /\ log[2].ok)
    /\ Len(log) = 3 => (log[3].op = "sftp.UploadFile" /\ log[3].path = p)

\* C31: the browser loop ends with a file to edit only on e over a selected
\* entry that is not a directory, and then carries that entry's path; the
\* application then runs the round trip on that path: the download, then the
\* editor, then the upload, the upload only when the two before it succeeded;
\* after that a new browser is listing on the same session; e on a directory
\* ends nothing and invokes nothing.
C31_EditRoundTrip ==
    [][/\ (pc = "browser" /\ pc' = "editing") =>
             /\ b.state = "Browsing"
             /\ HasSelection(b)
             /\ ~IndexPanics(b)
             /\ ~Selected(b).isDir
             /\ b'.fileToEdit = Join(b.currentPath, Selected(b).name)
             /\ b' = BrowserUpdate(b, remote, cwd, "e", TRUE, TRUE).b
             /\ ops' = <<>>
             /\ UNCHANGED <<remote, cwd, session>>
       /\ pc = "editing" =>
             /\ b.fileToEdit # <<>>
             /\ RoundTrip(SubSeq(ops', 1, Len(ops') - 1), b.fileToEdit)
             /\ ops'[Len(ops')].op = "sftp.ListDir"
             /\ pc' = "browser"
             /\ b'.state = "Browsing"
             /\ b'.currentPath = cwd
             /\ b'.fileToEdit = <<>>
             /\ UNCHANGED <<remote, cwd, session>>
       /\ (pc = "browser" /\ b.state = "Browsing" /\ HasSelection(b) /\ ~IndexPanics(b)
             /\ Selected(b).isDir) =>
             \A opOk, listOk \in BOOLEAN :
                \A out \in {BrowserUpdate(b, remote, cwd, "e", opOk, listOk)} :
                   /\ out.end = "none"
                   /\ out.ops = <<>>
                   /\ out.b.fileToEdit = <<>>
                   /\ out.remote = remote]_vars

\* A browser is running again after a round trip whose download, editor and
\* upload all succeeded.
C31_Witness ==
    /\ pc = "browser"
    /\ Len(ops) = 4
    /\ ops[3].op = "sftp.UploadFile"
    /\ ops[3].ok
    /\ b.state = "Browsing"

\* List after has the length and the order of list before and differs from it
\* at most in the record identified by id, which keeps that identity.
ReplacedOnly(before, after, id) ==
    /\ Len(after) = Len(before)
    /\ \E i \in 1..Len(before) : before[i].id = id
    /\ \A i \in 1..Len(before) :
          IF before[i].id = id THEN after[i].id = id ELSE after[i] = before[i]

\* List after is list before with one record appended, whose identity no
\* record of before has.
AppendedOne(before, after) ==
    /\ Len(after) = Len(before) + 1
    /\ SubSeq(after, 1, Len(before)) = before
    /\ \A i \in 1..Len(before) : before[i].id # after[Len(after)].id

\* A step of the connection form that reaches the persisted store.
FormSaves ==
    /\ pc = "tui"
    /\ m.state = "ViewConnectionForm"
    /\ m.form # Nil
    /\ ops' # <<>>
    /\ ops'[Len(ops')] = Op("config.Save", TRUE)

\* C32: a submission of the connection form that reaches the persisted store
\* in Edit mode replaces the record of the form's identity and leaves the
\* length, the order and every other record of the list as they were; in Add
\* mode it appends one record whose identity no record had; the list is what
\* is persisted; and a password the submission writes to the keyring is stored
\* under the identity of that record and under no other.
C32_SubmitKeepsIdentity ==
    [][FormSaves =>
          /\ disk' = config'
          /\ m.form.mode = "edit" =>
                /\ ReplacedOnly(config.connections, config'.connections, m.form.connID)
                /\ keyring' # keyring =>
                      \A e \in keyring' \ keyring : e.type = "conn" /\ e.id = m.form.connID
          /\ m.form.mode = "add" =>
                /\ AppendedOne(config.connections, config'.connections)
                /\ \A e \in keyring' \ keyring :
                      /\ e.type = "conn"
                      /\ e.id = config'.connections[Len(config'.connections)].id
          /\ ops'[1].op = "keyring.Set" =>
                \E e \in keyring' :
                   /\ e.type = "conn"
                   /\ \E i \in 1..Len(disk'.connections) :
                         /\ disk'.connections[i].id = e.id
                         /\ e.id = (IF m.form.mode = "edit" THEN m.form.connID
                                    ELSE disk'.connections[Len(disk'.connections)].id)
          /\ config'.credentials = config.credentials]_vars

\* An added record is persisted together with a password under its identity.
C32_Witness ==
    /\ pc = "tui"
    /\ ops = <<Op("keyring.Set", TRUE), Op("config.Save", TRUE)>>
    /\ Len(disk.connections) = MaxSeed + 1
    /\ disk.connections[Len(disk.connections)].id = FreshId(0)
    /\ KeyringHas(keyring, "conn", FreshId(0))

\* An edited record is persisted in place among other records.
C32_WitnessEdit ==
    /\ pc = "tui"
    /\ m.state = "ViewConnections"
    /\ ops # <<>>
    /\ ops[Len(ops)] = Op("config.Save", TRUE)
    /\ Len(disk.connections) = MaxSeed
    /\ disk.connections # SeedConnections(MaxSeed)

\* C33: a resize listener runs only for the interactive session that is
\* running: there is at most one, it is that session's, none is left once the
\* session has ended, and a resize is forwarded to no other session.
C33_ListenerOnlyWhileLive ==
    /\ \A s \in listeners : s = shell
    /\ Cardinality(listeners) <= 1
    /\ \A s \in resized : s \in listeners

\* The operations of the edit round trip.
EditOps == {"exec.Run", "sftp.UploadFile"}
IsEditOp(o) == "path" \in DOMAIN o

\* C34: the session handle has one user at a time and is closed last. Every
\* step uses a handle that is open; a step of the browser loop invokes no
\* operation of the edit round trip; the round trip starts only after the
\* browser loop has returned with a file to edit, and the next browser's
\* first listing comes after the round trip's last operation; the handle is
\* closed only when the browser loop has returned with no file to edit or has
\* failed, and nothing runs on it afterwards.
C34_OneUserOfHandle ==
    [][/\ pc \in {"browser", "editing"}
       /\ pc = "browser" =>
             /\ \A i \in 1..Len(ops') : ~IsEditOp(ops'[i]) /\ ops'[i].op \notin EditOps
             /\ pc' = "editing" => (b'.fileToEdit # <<>> /\ ops' = <<>>)
             /\ pc' = "closed" => (b'.fileToEdit = <<>> /\ ops' = <<>>)
       /\ pc = "editing" =>
             /\ pc' = "browser"
             /\ Len(ops') >= 2
             /\ \A i \in 1..(Len(ops') - 1) : IsEditOp(ops'[i])
             /\ ~IsEditOp(ops'[Len(ops')])
             /\ ops'[Len(ops')].op = "sftp.ListDir"
             /\ b'.fileToEdit = <<>>
       /\ pc' \in {"closed", "crashed"} => pc = "browser"]_vars

\* The next browser has listed its directory after a round trip that ended at
\* a failed download.
C34_Witness ==
    /\ pc = "browser"
    /\ Len(ops) = 2
    /\ IsEditOp(ops[1])
    /\ ~ops[1].ok
    /\ ops[2].op = "sftp.ListDir"

\* Log holds a change of directory or a listing that failed.
NavigationFailed(log) ==
    \E i \in 1..Len(log) : ~log[i].ok /\ log[i].op \in {"sftp.ChangeDir", "sftp.ListDir"}

\* C35: when a navigation or a reload of the browser fails, the current path,
\* the listing, the selection index and the scroll offset are as before.
C35_FailedNavigationIsFrame ==
    [][(/\ pc = "browser"
        /\ pc' = "browser"
        /\ b.state \in {"Browsing", "GoToPath"}
        /\ NavigationFailed(ops'))
       => SameView(b, b')]_vars

\* The keys whose handlers read files[selectedIndex].
IndexingKeys == {"enter", "l", "d", "y", "Y", "r", "e", "D"}

\* C36: in no reachable state of the browser does the handler of a key that
\* reads files[selectedIndex] panic on an index out of range, whatever the
\* session answers.
C36_NoIndexOutOfRange ==
    pc = "browser" =>
       \A k \in IndexingKeys : \A opOk, listOk \in BOOLEAN :
          BrowserUpdate(b, remote, cwd, k, opOk, listOk).end # "panic"

\* C37: in no reachable state does a key make the router's delete action read
\* the connection list, or the credentials manager read the credential list,
\* at an index out of range.
C37_NoListIndexOutOfRange ==
    pc = "tui" =>
       \A k \in Keys :
          /\ ~(/\ RouterModalShown
               /\ RunsCallback(m, k)
               /\ CallbackPanics(m.confirmationCallback.captured))
          /\ ~(/\ Dispatch(m, k) = "ViewCredentials"
               /\ m.credentialsManager # Nil
               /\ CmPanics(m.credentialsManager, k))

\* C38: whenever a confirmed modal of the router removes a connection, the
\* record removed is one whose label is the one in the modal's message, the
\* connection that was selected when d opened that modal.
C38_DeletesTheConnectionShown ==
    [][(/\ pc = "tui"
        /\ RouterModalShown
        /\ Len(config'.connections) < Len(config.connections))
       => \E i \in 1..Len(config.connections) :
             /\ config.connections[i].label = m.confirmationModal.message
             /\ config'.connections = RemoveAt(config.connections, i)]_vars

\* C39: while a text field of the connection form, or of the credential form
\* in the credentials manager, has the focus, the router hands every printable
\* key to that view, and the view appends it to the field when the field is
\* below its character limit.
C39_RunesReachFocusedField ==
    /\ (pc = "tui" /\ ~RouterModalShown /\ m.state = "ViewConnectionForm" /\ m.form # Nil
           /\ m.form.focusIndex < Len(m.form.inputs))
          => \A k \in Runes : \A i \in {m.form.focusIndex + 1} :
                /\ Dispatch(m, k) = "ViewConnectionForm"
                /\ Len(m.form.inputs[i]) < ConnCharLimits[i] =>
                      ConnectionFormUpdate(m.form, k).inputs[i] = Append(m.form.inputs[i], k)
    /\ (pc = "tui" /\ ~RouterModalShown /\ m.state = "ViewCredentials"
           /\ m.credentialsManager # Nil /\ CmInForm(m.credentialsManager)
           /\ m.credentialsManager.form.focusIndex < Len(m.credentialsManager.form.inputs))
          => \A k \in Runes : \A f \in {m.credentialsManager.form} :
             \A i \in {f.focusIndex + 1} :
                /\ Dispatch(m, k) = "ViewCredentials"
                /\ Len(f.inputs[i]) < CredCharLimits[i] =>
                      CredentialFormUpdate(f, k).inputs[i] = Append(f.inputs[i], k)

====
